---- MODULE Spec2Model ----
(***************************************************************************)
(* A model of the version-derivation pipeline of version.py.               *)
(*                                                                         *)
(* Representation.                                                         *)
(*  - A Python str is a sequence of characters, each character a TLA+      *)
(*    string of its own: "1.2" is <<"1", ".", "2">>.  The token "sup2"     *)
(*    stands for the single character U+00B2 (SUPERSCRIPT TWO), for which  *)
(*    str.isdigit() is true and int() raises ValueError.                   *)
(*  - An optional value is a set: None is {} and a set value v is {v}.     *)
(*  - A Python int is an integer and a Python bool is TRUE or FALSE.       *)
(*  - A raised exception is a record [type, msg, args].                    *)
(***************************************************************************)
EXTENDS Integers, Sequences, FiniteSets, TLC

VARIABLES
    ctx,        \* the VersionContext of the run
    env,        \* os.environ, restricted to GITHUB_HEAD_REF (None when absent)
    ver,        \* the Version record the steps mutate
    funcs,      \* the list of steps being applied
    pc,         \* index in funcs of the next step to apply
    err,        \* the exception raised, None while none was
    returned,   \* what the caller received: None, or the returned record
    calls,      \* history: one entry [step, before, after, raised, queries] per call
    repo,       \* the git repository of the work tree; None when the run is
                \* taken against any answer git may give
    view,       \* the options of the VersionViewBuilder made for ver; None when
                \* none was made
    output,     \* what VersionViewBuilder.build returned; None before it did
    runner      \* the state of _process_tasks of the task runner; None when
                \* no task run is under way

vars == <<ctx, env, ver, funcs, pc, err, returned, calls, repo, view, output, runner>>

----------------------------------------------------------------------------
(* Optional values *)

None == {}
Some(v) == {v}
Get(o) == CHOOSE x \in o : TRUE

----------------------------------------------------------------------------
(* Bounds of the model *)

MaxNum == 10        \* version components in input tags range over 0..MaxNum
MaxParts == 4       \* odd-shaped input tags have 1..MaxParts '.'-separated parts
MaxCommits == 11    \* commit counts range over 0..MaxCommits
MaxStrip == 3       \* strip counts range over 0..MaxStrip
MaxSegs == 3        \* generated branch names have 1..MaxSegs '/'-separated segments
MaxHistory == 3     \* modelled repositories have 1..MaxHistory commits
MaxShow == 2        \* generated show lists have 1..MaxShow comma-separated names

----------------------------------------------------------------------------
(* Python str and int primitives *)

DigitChars == <<"0", "1", "2", "3", "4", "5", "6", "7", "8", "9">>
UpperChars == <<"A", "B", "C", "D", "E", "F", "G", "H", "I", "J", "K", "L", "M",
                "N", "O", "P", "Q", "R", "S", "T", "U", "V", "W", "X", "Y", "Z">>
LowerChars == <<"a", "b", "c", "d", "e", "f", "g", "h", "i", "j", "k", "l", "m",
                "n", "o", "p", "q", "r", "s", "t", "u", "v", "w", "x", "y", "z">>

Range(s) == {s[i] : i \in 1..Len(s)}

IsDecimal(c) == c \in Range(DigitChars)
\* str.isdigit() per character: the decimal digits and other Unicode digits
IsDigitChar(c) == IsDecimal(c) \/ c = "sup2"
IsSpace(c) == c \in {" ", "\t", "\n", "\r"}
IsAlnumAscii(c) == c \in Range(DigitChars) \cup Range(UpperChars) \cup Range(LowerChars)

DigitVal(c) == CHOOSE d \in 0..9 : DigitChars[d + 1] = c

\* str(n) for an int n
RECURSIVE NatToStr(_)
NatToStr(n) == IF n < 10 THEN <<DigitChars[n + 1]>>
               ELSE NatToStr(n \div 10) \o <<DigitChars[(n % 10) + 1]>>
IntToStr(n) == IF n < 0 THEN <<"-">> \o NatToStr(0 - n) ELSE NatToStr(n)

\* the value of a non-empty string of decimal digits
RECURSIVE DecValue(_)
DecValue(s) == IF Len(s) = 0 THEN 0
               ELSE 10 * DecValue(SubSeq(s, 1, Len(s) - 1)) + DigitVal(s[Len(s)])

\* s.strip()
RECURSIVE LStrip(_)
LStrip(s) == IF Len(s) > 0 /\ IsSpace(s[1]) THEN LStrip(Tail(s)) ELSE s
RECURSIVE RStrip(_)
RStrip(s) == IF Len(s) > 0 /\ IsSpace(s[Len(s)])
             THEN RStrip(SubSeq(s, 1, Len(s) - 1)) ELSE s
Strip(s) == RStrip(LStrip(s))

\* s.isdigit()
IsDigit(s) == Len(s) > 0 /\ \A i \in 1..Len(s) : IsDigitChar(s[i])

\* int(s): Some(n), or None when int() raises ValueError.  Surrounding
\* whitespace and one leading sign are accepted ('_' is not in the alphabet).
IntBody(s) == IF Len(s) > 0 /\ s[1] \in {"-", "+"} THEN Tail(s) ELSE s
PyInt(s) ==
    LET t == Strip(s)
        b == IntBody(t)
    IN IF Len(b) > 0 /\ \A i \in 1..Len(b) : IsDecimal(b[i])
       THEN Some(IF t[1] = "-" THEN 0 - DecValue(b) ELSE DecValue(b))
       ELSE None

\* s.split(sep) for a one-character sep
RECURSIVE Split(_, _)
Split(s, sep) ==
    IF \A i \in 1..Len(s) : s[i] # sep THEN <<s>>
    ELSE LET k == CHOOSE i \in 1..Len(s) :
                      s[i] = sep /\ \A j \in 1..(i - 1) : s[j] # sep
         IN <<SubSeq(s, 1, k - 1)>> \o Split(SubSeq(s, k + 1, Len(s)), sep)

\* sep.join(parts)
RECURSIVE Join(_, _)
Join(parts, sep) ==
    IF Len(parts) = 0 THEN <<>>
    ELSE IF Len(parts) = 1 THEN parts[1]
    ELSE parts[1] \o sep \o Join(Tail(parts), sep)

\* s.splitlines(), for the line break "\n"
SplitLines(s) ==
    IF Len(s) = 0 THEN <<>>
    ELSE LET ls == Split(s, "\n")
         IN IF Len(ls[Len(ls)]) = 0 THEN SubSeq(ls, 1, Len(ls) - 1) ELSE ls

\* s.lower()
LowerChar(c) == IF c \in Range(UpperChars)
                THEN LowerChars[CHOOSE i \in 1..26 : UpperChars[i] = c]
                ELSE c
Lower(s) == [i \in 1..Len(s) |-> LowerChar(s[i])]

\* s.startswith(p)
StartsWith(s, p) == Len(p) <= Len(s) /\ SubSeq(s, 1, Len(p)) = p

\* needle in s
Contains(s, needle) ==
    \E i \in 1..(Len(s) - Len(needle) + 1) : SubSeq(s, i, i + Len(needle) - 1) = needle

\* s[n:] and s[:n] and s[-n:] for 0 <= n
DropFirst(s, n) == SubSeq(s, n + 1, Len(s))
TakeFirst(s, n) == SubSeq(s, 1, IF n < Len(s) THEN n ELSE Len(s))
TakeLast(s, n) == SubSeq(s, IF n < Len(s) THEN Len(s) - n + 1 ELSE 1, Len(s))

\* type(x).__name__ of a value that is an int, a bool or a str, read off the
\* way the value is written: a numeral, TRUE or FALSE, or a tuple
TypeOf(x) ==
    LET c == SubSeq(ToString(x), 1, 1)
    IN IF c \in {"-", "0", "1", "2", "3", "4", "5", "6", "7", "8", "9"} THEN "int"
       ELSE IF c \in {"T", "F"} THEN "bool"
       ELSE "str"

\* f"{x}" of an optional str, and of the optional value of an int field: the
\* numeral of an int, 'True' or 'False' for a bool, a str as it is
NoneStr == <<"N", "o", "n", "e">>
FmtStr(o) == IF o = None THEN NoneStr ELSE Get(o)
FmtInt(o) ==
    IF o = None THEN NoneStr
    ELSE IF TypeOf(Get(o)) = "int" THEN IntToStr(Get(o))
    ELSE IF TypeOf(Get(o)) = "bool"
    THEN (IF Get(o) THEN <<"T", "r", "u", "e">> ELSE <<"F", "a", "l", "s", "e">>)
    ELSE Get(o)

----------------------------------------------------------------------------
(* Exceptions *)

ValueError(msg, args) == [type |-> "ValueError", msg |-> msg, args |-> args]
IndexError(msg) == [type |-> "IndexError", msg |-> msg, args |-> <<>>]

\* the outcome of a step: the record as the step left it, and what it raised
Ok(v) == [ver |-> v, err |-> None]
Raise(v, e) == [ver |-> v, err |-> Some(e)]

----------------------------------------------------------------------------
(* Version and the steps of the pipeline *)

Fields == {"major", "minor", "patch", "commits", "hash", "branch", "last_tag",
           "last_hash", "tag", "tag_prefix", "semver", "semver_full", "pep440",
           "nuget", "timestamp"}

\* Version(): every field None
Version == [f \in Fields |-> None]

\* the result of exec(): the fields of CompletedProcess the steps read
Completed(rc, out) == [returncode |-> rc, stdout |-> out]

\* "not s" for an optional str: None and '' are falsy
Falsy(o) == o = None \/ Len(Get(o)) = 0

none_or_empty(o) == Falsy(o) \/ Len(Strip(Get(o))) = 0

MainBranches == {<<"m", "a", "i", "n">>, <<"m", "a", "s", "t", "e", "r">>}

validate_context(c, v) ==
    IF c.increment \notin {"MAJOR", "MINOR", "PATCH"}
    THEN Raise(v, ValueError("Invalid increment value. Must be major, minor, or patch", <<>>))
    ELSE Ok(v)

\* now: the formatted UTC time read from the clock
get_timestamp(c, v, now) == Ok([v EXCEPT !.timestamp = Some(now)])

\* result: the outcome of "git rev-parse HEAD"
get_hash(c, v, result) ==
    IF result.returncode = 0
    THEN Ok([v EXCEPT !.hash = Some(Strip(result.stdout))])
    ELSE Ok(v)

\* the step without its check of hash
get_last_tag_unguarded(c, v, described, revlist) ==
    LET v1 == IF described.returncode = 0
              THEN [v EXCEPT !.last_tag = Some(Strip(described.stdout))]
              ELSE v
        v2 == IF revlist.returncode = 0
              THEN [v1 EXCEPT !.last_hash = Some(Strip(revlist.stdout))]
              ELSE v1
    IN Ok(v2)

\* described: the outcome of "git describe --tags --abbrev=0 --match=<p>* <hash>^",
\* revlist: the outcome of "git rev-list -n 1 <last_tag>"
get_last_tag(c, v, described, revlist) ==
    IF none_or_empty(v.hash)
    THEN Raise(v, ValueError("No hash found.", <<>>))
    ELSE LET v1 == IF described.returncode = 0
                   THEN [v EXCEPT !.last_tag = Some(Strip(described.stdout))]
                   ELSE v
             v2 == IF revlist.returncode = 0
                   THEN [v1 EXCEPT !.last_hash = Some(Strip(revlist.stdout))]
                   ELSE v1
         IN Ok(v2)

\* result: the outcome of "git rev-list --ancestry-path <last_tag>..HEAD --count"
get_commit_count(c, v, result) ==
    IF none_or_empty(v.last_tag)
    THEN Raise(v, ValueError("No last_tag found.", <<>>))
    ELSE IF result.returncode = 0
    THEN LET n == PyInt(Strip(result.stdout))
         IN IF n = None
            THEN Raise(v, ValueError("invalid literal for int() with base 10: {}",
                                     <<Strip(result.stdout)>>))
            ELSE Ok([v EXCEPT !.commits = n])
    ELSE Ok(v)

\* the prefix echoed from the context whatever last_tag starts with
apply_tag_prefix_echo(c, v) ==
    IF none_or_empty(v.last_tag)
    THEN Raise(v, ValueError("No last_tag found.", <<>>))
    ELSE IF ~Falsy(c.tag_prefix)
    THEN Ok([v EXCEPT !.tag_prefix = c.tag_prefix])
    ELSE Ok(v)

apply_tag_prefix(c, v) ==
    IF none_or_empty(v.last_tag)
    THEN Raise(v, ValueError("No last_tag found.", <<>>))
    ELSE IF ~Falsy(c.tag_prefix) /\ StartsWith(Get(v.last_tag), Get(c.tag_prefix))
    THEN Ok([v EXCEPT !.tag_prefix = c.tag_prefix])
    ELSE Ok(v)

\* e: os.environ
get_github_branch(c, v, e) ==
    IF e.GITHUB_HEAD_REF # None
    THEN Ok([v EXCEPT !.branch = Some(Strip(Get(e.GITHUB_HEAD_REF)))])
    ELSE Ok(v)

\* the step asking git whatever branch holds
get_branch_always(c, v, result) ==
    IF result.returncode # 0
    THEN Raise(v, ValueError("No git branch found.", <<>>))
    ELSE Ok([v EXCEPT !.branch = Some(Strip(result.stdout))])

\* result: the outcome of "git rev-parse --abbrev-ref HEAD"
get_branch(c, v, result) ==
    IF none_or_empty(v.branch)
    THEN IF result.returncode # 0
         THEN Raise(v, ValueError("No git branch found.", <<>>))
         ELSE Ok([v EXCEPT !.branch = Some(Strip(result.stdout))])
    ELSE Ok(v)

HEADStr == <<"H", "E", "A", "D">>

\* the lines of "git branch --contains" that do not contain HEAD, each stripped
RECURSIVE BranchLines(_)
BranchLines(ls) ==
    IF Len(ls) = 0 THEN <<>>
    ELSE (IF Contains(ls[1], HEADStr) THEN <<>> ELSE <<Strip(ls[1])>>)
         \o BranchLines(Tail(ls))

\* result: the outcome of "git branch --contains <hash>"
get_detached_branch(c, v, result) ==
    IF none_or_empty(v.branch)
    THEN Raise(v, ValueError("No branch found.", <<>>))
    ELSE IF none_or_empty(v.hash)
    THEN Raise(v, ValueError("No hash found.", <<>>))
    ELSE IF Lower(Strip(Get(v.branch))) = Lower(HEADStr)
    THEN LET branches == BranchLines(SplitLines(Strip(result.stdout)))
         IN IF Len(branches) > 1
            THEN Raise(v, ValueError(
                     "Multiple branches found for {}. Could not determine branch name",
                     <<Get(v.hash)>>))
            ELSE IF Len(branches) = 0
            THEN Raise(v, IndexError("list index out of range"))
            ELSE Ok([v EXCEPT !.branch = Some(branches[1])])
    ELSE Ok(v)

\* the substitution with the class \w, which keeps '_'
SanitizeWord(s) ==
    [i \in 1..Len(s) |-> IF IsAlnumAscii(s[i]) \/ s[i] = "_" THEN s[i] ELSE "-"]

\* re.sub(r"[^a-zA-Z0-9]", "-", s)
Sanitize(s) == [i \in 1..Len(s) |-> IF IsAlnumAscii(s[i]) THEN s[i] ELSE "-"]

sanitize_branch_name(c, v) ==
    IF none_or_empty(v.branch)
    THEN Raise(v, ValueError("No branch found.", <<>>))
    ELSE Ok([v EXCEPT !.branch = Some(Sanitize(Get(v.branch)))])

\* "if ctx.strip_branch_components": None and 0 are falsy
StripRequested(c) == c.strip_branch_components # None /\ Get(c.strip_branch_components) # 0

\* the check off by one: "remaining < 0"
CannotStripOffByOne(parts, n) == Len(parts) - n < 0

\* the check "remaining < 1" of strip_branch_components
CannotStrip(parts, n) == Len(parts) - n < 1

\* the slice taken one component late: [n + 1:]
StripComponentsLate(b, n) == Join(DropFirst(Split(b, "/"), n + 1), <<"/">>)

\* "/".join(branch.split("/")[n:]), for 0 <= n
StripComponents(b, n) == Join(DropFirst(Split(b, "/"), n), <<"/">>)

strip_branch_components(c, v) ==
    IF StripRequested(c)
    THEN LET n == Get(c.strip_branch_components)
         IN IF none_or_empty(v.branch)
            THEN Raise(v, ValueError("No branch found.", <<>>))
            ELSE LET parts == Split(Get(v.branch), "/")
                 IN IF CannotStrip(parts, n)
                    THEN Raise(v, ValueError(
                             "Cannot strip {} components from a branch '{}' with only {} component(s)",
                             <<IntToStr(n), Get(v.branch), IntToStr(Len(parts))>>))
                    ELSE Ok([v EXCEPT !.branch = Some(StripComponents(Get(v.branch), n))])
    ELSE Ok(v)

\* last_ver: last_tag without the first len(tag_prefix) characters, stripped of
\* surrounding whitespace when tag_prefix is not empty
LastVer(v) ==
    IF ~Falsy(v.tag_prefix) /\ Len(Get(v.tag_prefix)) > 0
    THEN Strip(DropFirst(Get(v.last_tag), Len(Get(v.tag_prefix))))
    ELSE Get(v.last_tag)

\* the chain without the resets that a higher increment brings
ApplyIncrementNoReset(c, v) ==
    IF c.increment = "MAJOR"
    THEN [v EXCEPT !.major = Some(Get(v.major) + 1)]
    ELSE IF c.increment = "MINOR"
    THEN [v EXCEPT !.minor = Some(Get(v.minor) + 1)]
    ELSE IF c.increment = "PATCH"
    THEN [v EXCEPT !.patch = Some(Get(v.patch) + 1)]
    ELSE v

\* the if/elif chain on ctx.increment
ApplyIncrement(c, v) ==
    IF c.increment = "MAJOR"
    THEN [v EXCEPT !.major = Some(Get(v.major) + 1), !.minor = Some(0), !.patch = Some(0)]
    ELSE IF c.increment = "MINOR"
    THEN [v EXCEPT !.minor = Some(Get(v.minor) + 1), !.patch = Some(0)]
    ELSE IF c.increment = "PATCH"
    THEN [v EXCEPT !.patch = Some(Get(v.patch) + 1)]
    ELSE v

\* the three assignments ver.major = int(parts[0]), ...: the record after the
\* assignments that ran, and whether one of the int() calls raised
InvalidLiteral(s) == ValueError("invalid literal for int() with base 10: {}", <<s>>)

ParseComponents(v, parts) ==
    LET a == PyInt(parts[1])
        b == PyInt(parts[2])
        p == PyInt(parts[3])
    IN IF a = None THEN Raise(v, InvalidLiteral(parts[1]))
       ELSE IF b = None THEN Raise([v EXCEPT !.major = a], InvalidLiteral(parts[2]))
       ELSE IF p = None
       THEN Raise([v EXCEPT !.major = a, !.minor = b], InvalidLiteral(parts[3]))
       ELSE Ok([v EXCEPT !.major = a, !.minor = b, !.patch = p])

build_version_components(c, v) ==
    IF none_or_empty(v.last_tag)
    THEN Raise(v, ValueError("No last_tag found.", <<>>))
    ELSE LET parts == Split(LastVer(v), ".")
         IN IF Len(parts) # 3 \/ ~IsDigit(parts[1]) \/ ~IsDigit(parts[2])
                \/ ~IsDigit(parts[3])
            THEN Raise(v, ValueError("Invalid tag format. Expected 1.2.3", <<>>))
            ELSE LET r == ParseComponents(v, parts)
                 IN IF r.err # None THEN r ELSE Ok(ApplyIncrement(c, r.ver))

\* isinstance(v, int): an int, or a bool, bool being a subclass of int
is_int(o) == o # None /\ TypeOf(Get(o)) \in {"int", "bool"}

validate_version_components(v) ==
    IF is_int(v.major) /\ is_int(v.minor) /\ is_int(v.patch)
    THEN Ok(v)
    ELSE Raise(v, ValueError(
             "major ({}), minor ({}) or patch ({}) values not set correctly.",
             <<FmtInt(v.major), FmtInt(v.minor), FmtInt(v.patch)>>))

\* the check "not ver.commits", which takes 0 as unset
validate_semver_commits_truthy(v) ==
    LET r == validate_version_components(v)
    IN IF r.err # None THEN r
       ELSE IF none_or_empty(v.branch)
       THEN Raise(v, ValueError("No branch found.", <<>>))
       ELSE IF v.commits = None \/ v.commits = Some(0)
       THEN Raise(v, ValueError("No commits found.", <<>>))
       ELSE Ok(v)

\* the gate without the check of commits
validate_semver_branch_only(v) ==
    LET r == validate_version_components(v)
    IN IF r.err # None THEN r
       ELSE IF none_or_empty(v.branch)
       THEN Raise(v, ValueError("No branch found.", <<>>))
       ELSE Ok(v)

validate_semver(v) ==
    LET r == validate_version_components(v)
    IN IF r.err # None THEN r
       ELSE IF none_or_empty(v.branch)
       THEN Raise(v, ValueError("No branch found.", <<>>))
       ELSE IF v.commits = None
       THEN Raise(v, ValueError("No commits found.", <<>>))
       ELSE Ok(v)

\* f"{ver.major}.{ver.minor}.{ver.patch}"
Dotted(v) == FmtInt(v.major) \o <<".">> \o FmtInt(v.minor) \o <<".">> \o FmtInt(v.patch)

\* the tag without the prefix of the record
build_tag_no_prefix(c, v) ==
    LET r == validate_version_components(v)
    IN IF r.err # None THEN r
       ELSE Ok([v EXCEPT !.tag = Some(Dotted(v))])

build_tag(c, v) ==
    LET r == validate_version_components(v)
    IN IF r.err # None THEN r
       ELSE LET tag_prefix == IF ~Falsy(v.tag_prefix) THEN Get(v.tag_prefix) ELSE <<>>
            IN Ok([v EXCEPT !.tag = Some(tag_prefix \o Dotted(v))])

\* the suffix with 'main' alone taken as the trunk
get_branch_full_main_only(v, separator) ==
    LET onMain == v.branch # None /\ Get(v.branch) = <<"m", "a", "i", "n">>
        branch_value == IF ~onMain THEN separator \o FmtStr(v.branch) ELSE <<>>
        commits_value == IF ~onMain THEN <<".">> \o FmtInt(v.commits) ELSE <<>>
    IN branch_value \o commits_value

\* _get_branch_full(ver, separator)
get_branch_full(v, separator) ==
    LET onMain == v.branch # None /\ Get(v.branch) \in MainBranches
        branch_value == IF ~onMain THEN separator \o FmtStr(v.branch) ELSE <<>>
        commits_value == IF ~onMain THEN <<".">> \o FmtInt(v.commits) ELSE <<>>
    IN branch_value \o commits_value

build_semver(c, v) ==
    LET r == validate_semver(v)
    IN IF r.err # None THEN r
       ELSE LET v1 == [v EXCEPT !.semver = Some(Dotted(v))]
            IN Ok([v1 EXCEPT !.semver_full =
                       Some(FmtStr(v1.semver) \o get_branch_full(v1, <<"-">>))])

build_pep440(c, v) ==
    LET r == validate_semver(v)
    IN IF r.err # None THEN r
       ELSE Ok([v EXCEPT !.pep440 = Some(FmtStr(v.semver) \o get_branch_full(v, <<"+">>))])

NugetMaxLen == 20
NugetKeep == 10

\* the cut of an over-long nuget version to its first and last characters
NugetTruncate(s) ==
    IF Len(s) > NugetMaxLen THEN TakeFirst(s, NugetKeep) \o TakeLast(s, NugetKeep) ELSE s

build_nuget(c, v) ==
    LET r == validate_semver(v)
    IN IF r.err # None THEN r
       ELSE Ok([v EXCEPT !.nuget =
                    Some(NugetTruncate(FmtStr(v.semver) \o get_branch_full(v, <<"-">>)))])

----------------------------------------------------------------------------
(* Sample texts: git outputs, environment values, branch names, the clock *)

\* 'main'
S_main ==
    <<"m", "a", "i", "n">>

\* 'master'
S_master ==
    <<"m", "a", "s", "t", "e", "r">>

\* 'HEAD'
S_HEAD ==
    <<"H", "E", "A", "D">>

\* 'head'
S_head ==
    <<"h", "e", "a", "d">>

\* 'dev/main'
S_dev_main ==
    <<"d", "e", "v", "/", "m", "a", "i", "n">>

\* 'dev/name/jira-1234-foo'
S_jira_foo ==
    <<"d", "e", "v", "/", "n", "a", "m", "e", "/", "j", "i", "r", "a", "-", "1",
    "2", "3", "4", "-", "f", "o", "o">>

\* 'dev/some-name/jira-1234-this-is-a-really-cool-feature-i-think'
S_long ==
    <<"d", "e", "v", "/", "s", "o", "m", "e", "-", "n", "a", "m", "e", "/", "j",
    "i", "r", "a", "-", "1", "2", "3", "4", "-", "t", "h", "i", "s", "-", "i", "s",
    "-", "a", "-", "r", "e", "a", "l", "l", "y", "-", "c", "o", "o", "l", "-", "f",
    "e", "a", "t", "u", "r", "e", "-", "i", "-", "t", "h", "i", "n", "k">>

\* 'feature/add_x.y'
S_feature ==
    <<"f", "e", "a", "t", "u", "r", "e", "/", "a", "d", "d", "_", "x", ".", "y">>

\* '  '
S_blank ==
    <<" ", " ">>

\* ' fix/issue 7\n'
S_ref ==
    <<" ", "f", "i", "x", "/", "i", "s", "s", "u", "e", " ", "7", "\n">>

\* 'a1b2\n'
S_hash ==
    <<"a", "1", "b", "2", "\n">>

\* 'c3d4\n'
S_last_hash ==
    <<"c", "3", "d", "4", "\n">>

\* '0.2.0\n'
S_tag ==
    <<"0", ".", "2", ".", "0", "\n">>

\* 'v0.2.0\n'
S_vtag ==
    <<"v", "0", ".", "2", ".", "0", "\n">>

\* 'v1.9.10\n'
S_vtag9 ==
    <<"v", "1", ".", "9", ".", "1", "0", "\n">>

\* 'v1.b.0\n'
S_badtag ==
    <<"v", "1", ".", "b", ".", "0", "\n">>

\* '20240730T101500Z'
S_now ==
    <<"2", "0", "2", "4", "0", "7", "3", "0", "T", "1", "0", "1", "5", "0", "0",
    "Z">>

\* '* (HEAD detached at a1b2)\n  main\n'
S_detached_one ==
    <<"*", " ", "(", "H", "E", "A", "D", " ", "d", "e", "t", "a", "c", "h", "e",
    "d", " ", "a", "t", " ", "a", "1", "b", "2", ")", "\n", " ", " ", "m", "a", "i",
    "n", "\n">>

\* '* (HEAD detached at a1b2)\n  main\n  dev/main\n'
S_detached_two ==
    <<"*", " ", "(", "H", "E", "A", "D", " ", "d", "e", "t", "a", "c", "h", "e",
    "d", " ", "a", "t", " ", "a", "1", "b", "2", ")", "\n", " ", " ", "m", "a", "i",
    "n", "\n", " ", " ", "d", "e", "v", "/", "m", "a", "i", "n", "\n">>

\* '* (HEAD detached at a1b2)\n'
S_detached_none ==
    <<"*", " ", "(", "H", "E", "A", "D", " ", "d", "e", "t", "a", "c", "h", "e",
    "d", " ", "a", "t", " ", "a", "1", "b", "2", ")", "\n">>

\* '* (HEAD detached at a1b2)\n  dev/name/jira-1234-foo\n'
S_detached_long ==
    <<"*", " ", "(", "H", "E", "A", "D", " ", "d", "e", "t", "a", "c", "h", "e",
    "d", " ", "a", "t", " ", "a", "1", "b", "2", ")", "\n", " ", " ", "d", "e", "v",
    "/", "n", "a", "m", "e", "/", "j", "i", "r", "a", "-", "1", "2", "3", "4", "-",
    "f", "o", "o", "\n">>

----------------------------------------------------------------------------
(* Inputs *)

Failed == Completed(1, <<>>)
Succeeded(outs) == {Completed(0, o) : o \in outs}

HashResults == {Failed} \cup Succeeded({S_hash, <<"\n">>})
DescribeResults == {Failed} \cup Succeeded({S_tag, S_vtag, S_vtag9, S_badtag})
RevListResults == {Failed} \cup Succeeded({S_last_hash})
CountResults ==
    {Failed} \cup Succeeded({<<>>} \cup {IntToStr(n) \o <<"\n">> : n \in {0, 1, MaxCommits}})
BranchResults ==
    {Failed} \cup Succeeded({S_main \o <<"\n">>, S_master, S_HEAD \o <<"\n">>, S_dev_main,
                             S_jira_foo \o <<"\n">>, S_long, S_feature})
ContainsResults ==
    {Failed} \cup Succeeded({S_detached_one, S_detached_two, S_detached_none,
                             S_detached_long})
Timestamps == {S_now}

Increments == {"MAJOR", "MINOR", "PATCH"}
StripCounts == {None} \cup {Some(n) : n \in 0..MaxStrip}
TagPrefixes == {None, Some(<<"v">>)}

\* VersionContext(increment, tag_prefix, strip_branch_components); work_tree only
\* selects the directory git runs in, which the git results above stand for
VersionContext(inc, prefix, strip) ==
    [increment |-> inc, tag_prefix |-> prefix, strip_branch_components |-> strip]

Contexts ==
    {VersionContext(i, p, n) : i \in Increments \cup {"OTHER"}, p \in TagPrefixes,
                               n \in StripCounts}

Environ(ref) == [GITHUB_HEAD_REF |-> ref]
Environs == {Environ(r) : r \in {None, Some(<<>>), Some(S_blank), Some(S_ref)}}

----------------------------------------------------------------------------
(* The git repository, and what git answers to the queries of the steps *)

\* A repository is a linear history of commits, each with a hash and the tags
\* that point at it; head is the index of the checked-out commit; checkout is
\* the checked-out branch, None when HEAD is detached; branches lists the local
\* branches in the order git prints them, each with the index of its tip.
Commit(h, tags) == [hash |-> h, tags |-> tags]
Repository(history, head, checkout, branches) ==
    [history |-> history, head |-> head, checkout |-> checkout, branches |-> branches]
Branch(name, tip) == [name |-> name, tip |-> tip]

\* the index of the commit a hash names, 0 when there is none
CommitIndex(r, h) ==
    IF \E i \in 1..Len(r.history) : r.history[i].hash = h
    THEN CHOOSE i \in 1..Len(r.history) : r.history[i].hash = h
    ELSE 0

\* the index of the commit a tag name points at, 0 when there is no such tag
TagIndex(r, t) ==
    IF \E i \in 1..Len(r.history) : t \in r.history[i].tags
    THEN CHOOSE i \in 1..Len(r.history) : t \in r.history[i].tags
    ELSE 0

\* the glob of --match: the context's tag_prefix, or [0-9], followed by *
DigitClass == <<"[", "0", "-", "9", "]">>
MatchPrefix(c) == IF ~Falsy(c.tag_prefix) THEN Get(c.tag_prefix) ELSE DigitClass
GlobMatches(p, t) ==
    IF p = DigitClass THEN Len(t) > 0 /\ IsDecimal(t[1]) ELSE StartsWith(t, p)

Line(s) == s \o <<"\n">>

\* git rev-parse HEAD
GitRevParseHead(r) == {Completed(0, Line(r.history[r.head].hash))}

\* the describe that starts at the commit itself: <hash> in place of <hash>^
GitDescribeFromCommit(r, c, h) ==
    LET i == CommitIndex(r, h)
        tagged == {j \in 1..i : \E t \in r.history[j].tags : GlobMatches(MatchPrefix(c), t)}
    IN IF i = 0 \/ tagged = {} THEN {Failed}
       ELSE LET j == CHOOSE j \in tagged : \A k \in tagged : k <= j
            IN {Completed(0, Line(t)) :
                   t \in {u \in r.history[j].tags : GlobMatches(MatchPrefix(c), u)}}

\* git describe --tags --abbrev=0 --match=<prefix>* <hash>^: the nearest tag
\* that matches, searched from the parent of the commit <hash> back
GitDescribe(r, c, h) ==
    LET i == CommitIndex(r, h)
        tagged == {j \in 1..(i - 1) :
                      \E t \in r.history[j].tags : GlobMatches(MatchPrefix(c), t)}
    IN IF i <= 1 \/ tagged = {} THEN {Failed}
       ELSE LET j == CHOOSE j \in tagged : \A k \in tagged : k <= j
            IN {Completed(0, Line(t)) :
                   t \in {u \in r.history[j].tags : GlobMatches(MatchPrefix(c), u)}}

\* git rev-list -n 1 <last_tag>, with f"{ver.last_tag}" as the revision
GitRevList(r, last_tag) ==
    LET j == TagIndex(r, FmtStr(last_tag))
    IN IF j = 0 THEN {Failed} ELSE {Completed(0, Line(r.history[j].hash))}

\* git rev-list --ancestry-path <last_tag>..HEAD --count
GitCount(r, last_tag) ==
    LET j == TagIndex(r, FmtStr(last_tag))
    IN IF j = 0 THEN {Failed}
       ELSE {Completed(0, Line(IntToStr(IF r.head > j THEN r.head - j ELSE 0)))}

\* git rev-parse --abbrev-ref HEAD
GitAbbrevRef(r) ==
    {Completed(0, Line(IF r.checkout = None THEN HEADStr ELSE Get(r.checkout)))}

\* the lines of git branch --contains <hash>
DetachedLine(r) ==
    <<"*", " ", "(", "H", "E", "A", "D", " ", "d", "e", "t", "a", "c", "h", "e",
      "d", " ", "a", "t", " ">> \o r.history[r.head].hash \o <<")">>
RECURSIVE BranchListing(_, _, _)
BranchListing(r, bs, i) ==
    IF Len(bs) = 0 THEN <<>>
    ELSE (IF bs[1].tip >= i
          THEN Line((IF r.checkout = Some(bs[1].name) THEN <<"*", " ">> ELSE <<" ", " ">>)
                    \o bs[1].name)
          ELSE <<>>)
         \o BranchListing(r, Tail(bs), i)
GitBranchContains(r, h) ==
    LET i == CommitIndex(r, h)
    IN IF i = 0 THEN {Failed}
       ELSE {Completed(0, (IF r.checkout = None /\ r.head >= i
                           THEN Line(DetachedLine(r)) ELSE <<>>)
                          \o BranchListing(r, r.branches, i))}

----------------------------------------------------------------------------
(* get_version *)

\* the default list with the branch sanitized before it is stripped
DefaultFuncsSanitizeFirst ==
    <<"validate_context", "get_timestamp", "get_hash", "get_last_tag",
      "get_commit_count", "apply_tag_prefix", "get_github_branch", "get_branch",
      "get_detached_branch", "sanitize_branch_name", "strip_branch_components",
      "build_version_components", "build_tag", "build_semver", "build_pep440",
      "build_nuget">>

DefaultFuncs ==
    <<"validate_context", "get_timestamp", "get_hash", "get_last_tag",
      "get_commit_count", "apply_tag_prefix", "get_github_branch", "get_branch",
      "get_detached_branch", "strip_branch_components", "sanitize_branch_name",
      "build_version_components", "build_tag", "build_semver", "build_pep440",
      "build_nuget">>

StepNames == Range(DefaultFuncs)

\* pc of a run that an exception has left
Aborted == 0

\* a loop that goes on to the next step whatever the step did
AdvanceSwallow(i, r) == i + 1

\* the loop "for f in funcs: v = f(ctx, v)": where control goes after a step
Advance(i, r) == IF r.err = None THEN i + 1 ELSE Aborted

\* what the queries of a step may answer: anything when no repository is fixed
HashAnswers == IF repo = None THEN HashResults ELSE GitRevParseHead(Get(repo))
DescribeAnswers(c, v) ==
    IF repo = None THEN DescribeResults ELSE GitDescribe(Get(repo), c, FmtStr(v.hash))
\* last_tag as the first query of get_last_tag leaves it
LastTagAfter(v, described) ==
    IF described.returncode = 0 THEN Some(Strip(described.stdout)) ELSE v.last_tag
RevListAnswers(v, described) ==
    IF repo = None THEN RevListResults
    ELSE GitRevList(Get(repo), LastTagAfter(v, described))
CountAnswers(v) == IF repo = None THEN CountResults ELSE GitCount(Get(repo), v.last_tag)
BranchAnswers == IF repo = None THEN BranchResults ELSE GitAbbrevRef(Get(repo))
ContainsAnswers(v) ==
    IF repo = None THEN ContainsResults ELSE GitBranchContains(Get(repo), FmtStr(v.hash))

AtStep(name) == pc \in 1..Len(funcs) /\ funcs[pc] = name

\* a git command a step has run, and what it answered
Ran(cmd, result) == [cmd |-> cmd, result |-> result]

\* the git commands step name runs on the record v, results being the answers
\* in the order of the exec calls of the step
Executed(name, v, results) ==
    CASE name = "get_hash" -> <<Ran("rev-parse HEAD", results[1])>>
      [] name = "get_last_tag" ->
            IF none_or_empty(v.hash) THEN <<>>
            ELSE <<Ran("describe --tags --abbrev=0 --match", results[1]),
                   Ran("rev-list -n 1", results[2])>>
      [] name = "get_commit_count" ->
            IF none_or_empty(v.last_tag) THEN <<>>
            ELSE <<Ran("rev-list --ancestry-path --count", results[1])>>
      [] name = "get_branch" ->
            IF none_or_empty(v.branch)
            THEN <<Ran("rev-parse --abbrev-ref HEAD", results[1])>>
            ELSE <<>>
      [] name = "get_detached_branch" ->
            IF ~none_or_empty(v.branch) /\ ~none_or_empty(v.hash)
               /\ Lower(Strip(Get(v.branch))) = Lower(HEADStr)
            THEN <<Ran("branch --contains", results[1])>>
            ELSE <<>>
      [] OTHER -> <<>>

\* the step name has run on ver with outcome r, git having answered results
FinishQ(name, r, results) ==
    /\ ver' = r.ver
    /\ err' = r.err
    /\ pc' = Advance(pc, r)
    /\ calls' = Append(calls, [step |-> name, before |-> ver, after |-> r.ver,
                                raised |-> r.err # None,
                                queries |-> Executed(name, ver, results)])
    /\ UNCHANGED <<ctx, env, funcs, returned, repo, view, output, runner>>

\* the same for a step that runs no git command
Finish(name, r) == FinishQ(name, r, <<>>)

Call_validate_context ==
    /\ AtStep("validate_context")
    /\ Finish("validate_context", validate_context(ctx, ver))

Call_get_timestamp ==
    /\ AtStep("get_timestamp")
    /\ \E now \in Timestamps : Finish("get_timestamp", get_timestamp(ctx, ver, now))

Call_get_hash ==
    /\ AtStep("get_hash")
    /\ \E result \in HashAnswers :
          FinishQ("get_hash", get_hash(ctx, ver, result), <<result>>)

Call_get_last_tag ==
    /\ AtStep("get_last_tag")
    /\ \E described \in DescribeAnswers(ctx, ver) :
          \E revlist \in RevListAnswers(ver, described) :
              FinishQ("get_last_tag", get_last_tag(ctx, ver, described, revlist),
                      <<described, revlist>>)

Call_get_commit_count ==
    /\ AtStep("get_commit_count")
    /\ \E result \in CountAnswers(ver) :
          FinishQ("get_commit_count", get_commit_count(ctx, ver, result), <<result>>)

Call_apply_tag_prefix ==
    /\ AtStep("apply_tag_prefix")
    /\ Finish("apply_tag_prefix", apply_tag_prefix(ctx, ver))

Call_get_github_branch ==
    /\ AtStep("get_github_branch")
    /\ Finish("get_github_branch", get_github_branch(ctx, ver, env))

Call_get_branch ==
    /\ AtStep("get_branch")
    /\ \E result \in BranchAnswers :
          FinishQ("get_branch", get_branch(ctx, ver, result), <<result>>)

Call_get_detached_branch ==
    /\ AtStep("get_detached_branch")
    /\ \E result \in ContainsAnswers(ver) :
          FinishQ("get_detached_branch", get_detached_branch(ctx, ver, result),
                  <<result>>)

Call_strip_branch_components ==
    /\ AtStep("strip_branch_components")
    /\ Finish("strip_branch_components", strip_branch_components(ctx, ver))

Call_sanitize_branch_name ==
    /\ AtStep("sanitize_branch_name")
    /\ Finish("sanitize_branch_name", sanitize_branch_name(ctx, ver))

Call_build_version_components ==
    /\ AtStep("build_version_components")
    /\ Finish("build_version_components", build_version_components(ctx, ver))

Call_build_tag ==
    /\ AtStep("build_tag")
    /\ Finish("build_tag", build_tag(ctx, ver))

Call_build_semver ==
    /\ AtStep("build_semver")
    /\ Finish("build_semver", build_semver(ctx, ver))

Call_build_pep440 ==
    /\ AtStep("build_pep440")
    /\ Finish("build_pep440", build_pep440(ctx, ver))

Call_build_nuget ==
    /\ AtStep("build_nuget")
    /\ Finish("build_nuget", build_nuget(ctx, ver))

\* "return v" once the loop has run through funcs
Return ==
    /\ pc = Len(funcs) + 1
    /\ returned = None
    /\ returned' = Some(ver)
    /\ UNCHANGED <<ctx, env, ver, funcs, pc, err, calls, repo, view, output, runner>>

Next ==
    \/ Call_validate_context
    \/ Call_get_timestamp
    \/ Call_get_hash
    \/ Call_get_last_tag
    \/ Call_get_commit_count
    \/ Call_apply_tag_prefix
    \/ Call_get_github_branch
    \/ Call_get_branch
    \/ Call_get_detached_branch
    \/ Call_strip_branch_components
    \/ Call_sanitize_branch_name
    \/ Call_build_version_components
    \/ Call_build_tag
    \/ Call_build_semver
    \/ Call_build_pep440
    \/ Call_build_nuget
    \/ Return

\* get_version(ctx) with the default step list, on a new Version()
Init ==
    /\ ctx \in Contexts
    /\ env \in Environs
    /\ ver = Version
    /\ funcs = DefaultFuncs
    /\ pc = 1
    /\ err = None
    /\ returned = None
    /\ calls = <<>>
    /\ repo = None
    /\ view = None
    /\ output = None
    /\ runner = None

Spec == Init /\ [][Next]_vars

----------------------------------------------------------------------------
(* Direct calls of one step on a given record, as the unit tests make them *)

\* 'jira-1234-foo'
S_jira ==
    <<"j", "i", "r", "a", "-", "1", "2", "3", "4", "-", "f", "o", "o">>

\* 'feature-1234'
S_twelve ==
    <<"f", "e", "a", "t", "u", "r", "e", "-", "1", "2", "3", "4">>

\* 'dev'
S_dev ==
    <<"d", "e", "v">>

\* ' main'
S_spaced_main ==
    <<" ", "m", "a", "i", "n">>

\* ' HEAD '
S_spaced_HEAD ==
    <<" ", "H", "E", "A", "D", " ">>

\* 'v'
S_v ==
    <<"v">>

\* '0.2.0'
S_plain_tag ==
    <<"0", ".", "2", ".", "0">>

\* 'v0.2.0'
S_prefixed_tag ==
    <<"v", "0", ".", "2", ".", "0">>

\* 'a1b2'
S_plain_hash ==
    <<"a", "1", "b", "2">>

\* Version(**r): the fields of r set, the others None
VersionWith(r) == [f \in Fields |-> IF f \in DOMAIN r THEN r[f] ELSE None]

DefaultContext == VersionContext("MINOR", None, None)
NoEnviron == Environ(None)

\* tags 'a.b.c' of numbers, and tags of 1..MaxParts parts of any shape
Dot == <<".">>
NumTags ==
    {Join(<<IntToStr(a), IntToStr(b), IntToStr(c)>>, Dot) :
        a \in 0..MaxNum, b \in 0..MaxNum, c \in 0..MaxNum}
TagParts == {<<>>, <<"1">>, <<"0", "7">>, <<"b">>, <<"sup2">>, <<" ", "1">>}
OddTags ==
    {Join(ps, Dot) : ps \in UNION {[1..k -> TagParts] : k \in 1..MaxParts}}
TagBodies == NumTags \cup OddTags

\* a record with last_tag built on the body t and a tag_prefix, in shape k:
\* no prefix; an empty prefix; the prefix 'v' on 'v' + t; the same with spaces
\* around t; no prefix on 'v' + t
TagShapes == 1..5
TagRecord(t, k) ==
    CASE k = 1 -> VersionWith([last_tag |-> Some(t)])
      [] k = 2 -> VersionWith([last_tag |-> Some(t), tag_prefix |-> Some(<<>>)])
      [] k = 3 -> VersionWith([last_tag |-> Some(S_v \o t), tag_prefix |-> Some(S_v)])
      [] k = 4 -> VersionWith([last_tag |-> Some(S_v \o <<" ">> \o t \o <<" ">>),
                               tag_prefix |-> Some(S_v)])
      [] k = 5 -> VersionWith([last_tag |-> Some(S_v \o t)])
\* records without a usable last_tag
NoTagRecords ==
    {VersionWith([last_tag |-> None]), VersionWith([last_tag |-> Some(S_blank)]),
     VersionWith([last_tag |-> Some(<<>>), tag_prefix |-> Some(S_v)])}

\* branch names of 1..MaxSegs segments, and the sample names
SegSamples == {<<>>, <<"a">>, <<" ">>, <<"B", "-", "1">>, <<"x", "_", "9", ".">>}
GenBranches ==
    {Join(ps, <<"/">>) : ps \in UNION {[1..k -> SegSamples] : k \in 1..MaxSegs}}
NamedBranches ==
    {S_main, S_master, S_HEAD, S_dev_main, S_jira_foo, S_long, S_feature, S_blank}
BranchInputs == {None} \cup {Some(b) : b \in GenBranches \cup NamedBranches}

\* records a format builder may be given
ComponentInputs == {None, Some(0), Some(1), Some(MaxNum)}
CommitInputs == {None, Some(0), Some(1), Some(MaxCommits)}
BuilderBranches ==
    {None} \cup {Some(b) : b \in {S_blank, S_main, S_master, S_spaced_main, S_dev,
                                  S_twelve, S_jira, S_long}}
BuilderRecord(a, b, p, br, n) ==
    VersionWith([major |-> a, minor |-> b, patch |-> p, branch |-> br, commits |-> n])
\* the same with semver as build_semver would have set it
WithSemver(v) == [v EXCEPT !.semver = Some(Dotted(v))]

HashInputs == {None, Some(<<>>), Some(S_blank), Some(S_plain_hash)}
LastTagInputs == {None, Some(S_blank), Some(S_plain_tag), Some(S_prefixed_tag), Some(S_v)}
\* last_tag values apply_tag_prefix may meet: also ' v0.2.0' and 'V0.2.0'
PrefixTagInputs ==
    LastTagInputs \cup {Some(<<>>), Some(<<" ">> \o S_prefixed_tag),
                        Some(<<"V">> \o S_plain_tag)}
DetachedInputs ==
    {None} \cup {Some(b) : b \in {S_blank, S_HEAD, S_head, S_spaced_HEAD, S_main, S_dev_main}}

\* the record and context of a call of step f
CallInput(f) ==
    CASE f = "validate_context" -> ctx \in Contexts /\ env = NoEnviron /\ ver = Version
      [] f = "get_timestamp" -> ctx = DefaultContext /\ env = NoEnviron /\ ver = Version
      [] f = "get_hash" ->
            /\ ctx = DefaultContext /\ env = NoEnviron
            /\ \E h \in HashInputs : ver = VersionWith([hash |-> h])
      [] f = "get_last_tag" ->
            /\ \E p \in TagPrefixes : ctx = VersionContext("MINOR", p, None)
            /\ env = NoEnviron
            /\ \E h \in HashInputs : ver = VersionWith([hash |-> h])
      [] f = "get_commit_count" ->
            /\ ctx = DefaultContext /\ env = NoEnviron
            /\ \E t \in LastTagInputs : ver = VersionWith([last_tag |-> t])
      [] f = "apply_tag_prefix" ->
            /\ \E p \in TagPrefixes \cup {Some(<<>>)} : ctx = VersionContext("MINOR", p, None)
            /\ env = NoEnviron
            /\ \E t \in PrefixTagInputs : ver = VersionWith([last_tag |-> t])
      [] f = "get_github_branch" ->
            /\ ctx = DefaultContext /\ env \in Environs
            /\ \E b \in {None, Some(S_main)} : ver = VersionWith([branch |-> b])
      [] f = "get_branch" ->
            /\ ctx = DefaultContext /\ env = NoEnviron
            /\ \E b \in {None, Some(<<>>), Some(S_blank), Some(S_main)} :
                  ver = VersionWith([branch |-> b])
      [] f = "get_detached_branch" ->
            /\ ctx = DefaultContext /\ env = NoEnviron
            /\ \E b \in DetachedInputs, h \in HashInputs :
                  ver = VersionWith([branch |-> b, hash |-> h])
      [] f = "strip_branch_components" ->
            /\ \E n \in StripCounts : ctx = VersionContext("MINOR", None, n)
            /\ env = NoEnviron
            /\ \E b \in BranchInputs : ver = VersionWith([branch |-> b])
      [] f = "sanitize_branch_name" ->
            /\ ctx = DefaultContext /\ env = NoEnviron
            /\ \E b \in BranchInputs : ver = VersionWith([branch |-> b])
      [] f = "build_version_components" ->
            /\ \E i \in Increments : ctx = VersionContext(i, None, None)
            /\ env = NoEnviron
            /\ \/ ver \in NoTagRecords
               \/ \E t \in TagBodies, k \in TagShapes : ver = TagRecord(t, k)
      [] f = "build_tag" ->
            /\ ctx = DefaultContext /\ env = NoEnviron
            /\ \E a \in ComponentInputs, b \in ComponentInputs, p \in ComponentInputs,
                  t \in {None, Some(<<>>), Some(S_v)} :
                  ver = VersionWith([major |-> a, minor |-> b, patch |-> p, tag_prefix |-> t])
      [] f = "build_semver" ->
            /\ ctx = DefaultContext /\ env = NoEnviron
            /\ \E a \in ComponentInputs, b \in ComponentInputs, p \in ComponentInputs,
                  br \in BuilderBranches, n \in CommitInputs :
                  ver = BuilderRecord(a, b, p, br, n)
      [] f \in {"build_pep440", "build_nuget"} ->
            /\ ctx = DefaultContext /\ env = NoEnviron
            /\ \E a \in ComponentInputs, b \in ComponentInputs, p \in ComponentInputs,
                  br \in BuilderBranches, n \in CommitInputs :
                  \/ ver = BuilderRecord(a, b, p, br, n)
                  \/ ver = WithSemver(BuilderRecord(a, b, p, br, n))

\* one call f(ctx, ver) of a step on a record the caller made
InitCall ==
    \E f \in StepNames :
        /\ funcs = <<f>>
        /\ CallInput(f)
        /\ pc = 1
        /\ err = None
        /\ returned = None
        /\ calls = <<>>
        /\ repo = None
        /\ view = None
        /\ output = None
        /\ runner = None

SpecCall == InitCall /\ [][Next]_vars

----------------------------------------------------------------------------
(* Calls of a format builder on a record whose components the caller has set *)

\* what a caller may have put in major, minor or patch besides None and an
\* int: the strs '1', '' and 'x', and the bools
StrComponents == {<<"1">>, <<>>, <<"x">>}
BoolComponents == {TRUE, FALSE}
ComponentNames == {"major", "minor", "patch"}

\* the record r with the value x in component k
WithComponent(r, k, x) == [r EXCEPT ![k] = Some(x)]

\* Version(major=a, minor=b, patch=p, branch=br, commits=n, tag_prefix=t), and
\* the same with a str or a bool in one of the components
TypedInput ==
    /\ ctx = DefaultContext
    /\ env = NoEnviron
    /\ \E a \in ComponentInputs, b \in ComponentInputs, p \in ComponentInputs,
          br \in {None, Some(S_main), Some(S_dev)}, n \in {None, Some(1)},
          t \in {None, Some(S_v)} :
          LET r == VersionWith([major |-> a, minor |-> b, patch |-> p, branch |-> br,
                                commits |-> n, tag_prefix |-> t])
          IN \/ ver = r
             \/ \E k \in ComponentNames, x \in StrComponents : ver = WithComponent(r, k, x)
             \/ \E k \in ComponentNames, x \in BoolComponents : ver = WithComponent(r, k, x)

InitTyped ==
    /\ \E f \in {"build_tag", "build_semver", "build_pep440", "build_nuget"} : funcs = <<f>>
    /\ TypedInput
    /\ pc = 1
    /\ err = None
    /\ returned = None
    /\ calls = <<>>
    /\ repo = None
    /\ view = None
    /\ output = None
    /\ runner = None

NextTyped ==
    \/ Call_build_tag
    \/ Call_build_semver
    \/ Call_build_pep440
    \/ Call_build_nuget
    \/ Return

SpecTyped == InitTyped /\ [][NextTyped]_vars

----------------------------------------------------------------------------
(* get_version in the work tree of a repository *)

\* commit k of a history: its hash, and the tags it may carry: '0.k.0', 'v0.k.0',
\* or a tag named 'None' (one commit of a history at most, a tag name being unique)
CommitHash(k) == <<"c">> \o IntToStr(k)
PlainTag(k) == IntToStr(0) \o Dot \o IntToStr(k) \o Dot \o IntToStr(0)
PrefixedTag(k) == S_v \o PlainTag(k)
TagLayouts == 1..4
LayoutTags(k, m) ==
    CASE m = 1 -> {}
      [] m = 2 -> {PlainTag(k)}
      [] m = 3 -> {PlainTag(k), PrefixedTag(k)}
      [] m = 4 -> {NoneStr}

\* the history of n commits whose commit k is tagged in layout f[k]
History(n, f) == [k \in 1..n |-> Commit(CommitHash(k), LayoutTags(k, f[k]))]

\* the checkouts of a history of n commits: main, or a work branch beside main,
\* at the last commit; HEAD detached at commit i with main, with main and
\* dev/main, or with no local branch
CheckoutShapes == 1..5
Checkout(h, i, k) ==
    CASE k = 1 -> Repository(h, Len(h), Some(S_main), <<Branch(S_main, Len(h))>>)
      [] k = 2 -> Repository(h, Len(h), Some(S_jira_foo),
                             <<Branch(S_jira_foo, Len(h)), Branch(S_main, Len(h))>>)
      [] k = 3 -> Repository(h, i, None, <<Branch(S_main, Len(h))>>)
      [] k = 4 -> Repository(h, i, None,
                             <<Branch(S_dev_main, Len(h)), Branch(S_main, Len(h))>>)
      [] k = 5 -> Repository(h, i, None, <<>>)

RepoContexts ==
    {VersionContext(i, p, n) : i \in Increments, p \in TagPrefixes, n \in {None, Some(1)}}
RepoEnvirons == {Environ(r) : r \in {None, Some(S_ref)}}

\* get_version(ctx) with the default step list in a repository
InitRepo ==
    /\ ctx \in RepoContexts
    /\ env \in RepoEnvirons
    /\ \E n \in 1..MaxHistory :
          \E f \in [1..n -> TagLayouts], i \in 1..n, k \in CheckoutShapes :
              /\ k \in {1, 2} => i = n
              /\ Cardinality({j \in 1..n : f[j] = 4}) <= 1
              /\ repo = Some(Checkout(History(n, f), i, k))
    /\ ver = Version
    /\ funcs = DefaultFuncs
    /\ pc = 1
    /\ err = None
    /\ returned = None
    /\ calls = <<>>
    /\ view = None
    /\ output = None
    /\ runner = None

SpecRepo == InitRepo /\ [][Next]_vars

----------------------------------------------------------------------------
(* VersionViewBuilder *)

\* s.upper()
UpperChar(c) == IF c \in Range(LowerChars)
                THEN UpperChars[CHOOSE i \in 1..26 : LowerChars[i] = c]
                ELSE c
Upper(s) == [i \in 1..Len(s) |-> UpperChar(s[i])]

\* vars(ver): the fields in the order of their declaration, and their names
FieldOrder ==
    <<"major", "minor", "patch", "commits", "hash", "branch", "last_tag", "last_hash",
      "tag", "tag_prefix", "semver", "semver_full", "pep440", "nuget", "timestamp">>
FieldName(f) ==
    CASE f = "major" -> <<"m", "a", "j", "o", "r">>
      [] f = "minor" -> <<"m", "i", "n", "o", "r">>
      [] f = "patch" -> <<"p", "a", "t", "c", "h">>
      [] f = "commits" -> <<"c", "o", "m", "m", "i", "t", "s">>
      [] f = "hash" -> <<"h", "a", "s", "h">>
      [] f = "branch" -> <<"b", "r", "a", "n", "c", "h">>
      [] f = "last_tag" -> <<"l", "a", "s", "t", "_", "t", "a", "g">>
      [] f = "last_hash" -> <<"l", "a", "s", "t", "_", "h", "a", "s", "h">>
      [] f = "tag" -> <<"t", "a", "g">>
      [] f = "tag_prefix" -> <<"t", "a", "g", "_", "p", "r", "e", "f", "i", "x">>
      [] f = "semver" -> <<"s", "e", "m", "v", "e", "r">>
      [] f = "semver_full" -> <<"s", "e", "m", "v", "e", "r", "_", "f", "u", "l", "l">>
      [] f = "pep440" -> <<"p", "e", "p", "4", "4", "0">>
      [] f = "nuget" -> <<"n", "u", "g", "e", "t">>
      [] f = "timestamp" -> <<"t", "i", "m", "e", "s", "t", "a", "m", "p">>
IntFields == {"major", "minor", "patch", "commits"}
VerDictKeys == [i \in 1..Len(FieldOrder) |-> FieldName(FieldOrder[i])]

\* "key in ver_dict", and the field a key names
KnownKey(key) == \E f \in Fields : FieldName(f) = key
FieldOf(key) == CHOOSE f \in Fields : FieldName(f) = key

\* 'all', 'csv', 'json', 'env', 'VERSION_'
S_all == <<"a", "l", "l">>
S_csv == <<"c", "s", "v">>
S_json == <<"j", "s", "o", "n">>
S_env == <<"e", "n", "v">>
S_VERSION_ == <<"V", "E", "R", "S", "I", "O", "N", "_">>

\* VersionViewBuilder(ver): the options as __init__ sets them
VersionViewBuilder ==
    [show |-> Some(S_all), format |-> S_csv, json_pretty |-> FALSE,
     csv_header |-> FALSE, env_prefix |-> S_VERSION_, no_quotes |-> FALSE]

\* value.replace('"', '\\"')
RECURSIVE EscapeQuotes(_)
EscapeQuotes(s) ==
    IF Len(s) = 0 THEN <<>>
    ELSE (IF s[1] = "\"" THEN <<"\\", "\"">> ELSE <<s[1]>>) \o EscapeQuotes(Tail(s))

\* str(self._build_value(value, no_quotes)) for the value of field f of v
build_value(v, f, no_quotes) ==
    IF v[f] = None THEN <<>>
    ELSE IF f \notin IntFields
    THEN (IF ~no_quotes THEN <<"\"">> \o EscapeQuotes(Get(v[f])) \o <<"\"">>
          ELSE Get(v[f]))
    ELSE IntToStr(Get(v[f]))

\* the keys to print with the unknown names left out instead of reported
print_keys_skipping(b) ==
    IF Falsy(b.show) THEN [keys |-> <<FieldName("semver_full")>>, err |-> None]
    ELSE IF Get(b.show) = S_all THEN [keys |-> VerDictKeys, err |-> None]
    ELSE [keys |-> SelectSeq(Split(Get(b.show), ","), KnownKey), err |-> None]

\* print_keys: the keys to print, or the error for the first unknown name
print_keys(b) ==
    IF Falsy(b.show) THEN [keys |-> <<FieldName("semver_full")>>, err |-> None]
    ELSE IF Get(b.show) = S_all THEN [keys |-> VerDictKeys, err |-> None]
    ELSE LET ks == Split(Get(b.show), ",")
             bad == {i \in 1..Len(ks) : ~KnownKey(ks[i])}
         IN IF bad # {}
            THEN [keys |-> <<>>,
                  err |-> Some(ValueError("Field '{}' not found.",
                                          <<ks[CHOOSE i \in bad : \A j \in bad : i <= j]>>))]
            ELSE [keys |-> ks, err |-> None]

\* json.dumps of a str, of the value of a field, and of the dict of the keys
JsonEscape(c) ==
    CASE c = "\"" -> <<"\\", "\"">>
      [] c = "\\" -> <<"\\", "\\">>
      [] c = "\n" -> <<"\\", "n">>
      [] c = "\r" -> <<"\\", "r">>
      [] c = "\t" -> <<"\\", "t">>
      [] c = "sup2" -> <<"\\", "u", "0", "0", "b", "2">>
      [] OTHER -> <<c>>
RECURSIVE JsonEscaped(_)
JsonEscaped(s) == IF Len(s) = 0 THEN <<>> ELSE JsonEscape(s[1]) \o JsonEscaped(Tail(s))
JsonString(s) == <<"\"">> \o JsonEscaped(s) \o <<"\"">>
JsonValue(v, f) ==
    IF v[f] = None THEN <<"n", "u", "l", "l">>
    ELSE IF f \in IntFields THEN IntToStr(Get(v[f]))
    ELSE JsonString(Get(v[f]))
\* the keys of {key: ver_dict[key] for key in print_keys}: each key once, in
\* the order of its first place
RECURSIVE DictKeys(_)
DictKeys(ks) ==
    IF Len(ks) = 0 THEN <<>>
    ELSE LET front == DictKeys(SubSeq(ks, 1, Len(ks) - 1))
         IN IF ks[Len(ks)] \in Range(front) THEN front ELSE Append(front, ks[Len(ks)])
JsonIndent == 4
Spaces(n) == [i \in 1..n |-> " "]
json_dumps(v, ks, pretty) ==
    LET keys == DictKeys(ks)
        items == [i \in 1..Len(keys) |->
                     JsonString(keys[i]) \o <<":", " ">> \o JsonValue(v, FieldOf(keys[i]))]
    IN IF pretty
       THEN <<"{", "\n">>
            \o Join([i \in 1..Len(items) |-> Spaces(JsonIndent) \o items[i]], <<",", "\n">>)
            \o <<"\n", "}">>
       ELSE <<"{">> \o Join(items, <<",", " ">>) \o <<"}">>

\* the csv lines with the header line written whatever the flag says
csv_lines_header_always(b, v, ks) ==
    <<Join(ks, <<",">>)>>
    \o <<Join([i \in 1..Len(ks) |-> build_value(v, FieldOf(ks[i]), b.no_quotes)], <<",">>)>>

\* the env lines with the prefix and the name written as they are given
env_lines_as_given(b, v, ks) ==
    [i \in 1..Len(ks) |->
        b.env_prefix \o ks[i] \o <<"=">>
        \o build_value(v, FieldOf(ks[i]), b.no_quotes)]

\* the env lines and the csv lines of build
env_lines(b, v, ks) ==
    [i \in 1..Len(ks) |->
        Upper(b.env_prefix) \o Upper(ks[i]) \o <<"=">>
        \o build_value(v, FieldOf(ks[i]), b.no_quotes)]
csv_lines(b, v, ks) ==
    (IF b.csv_header THEN <<Join(ks, <<",">>)>> ELSE <<>>)
    \o <<Join([i \in 1..Len(ks) |-> build_value(v, FieldOf(ks[i]), b.no_quotes)], <<",">>)>>

\* the rendering of the keys pk has found
Rendered(b, v, pk) ==
    IF pk.err # None THEN [out |-> None, err |-> pk.err]
    ELSE [out |-> Some(IF b.format = S_json THEN json_dumps(v, pk.keys, b.json_pretty)
                       ELSE IF b.format = S_env
                       THEN Join(env_lines(b, v, pk.keys), <<"\n">>)
                       ELSE Join(csv_lines(b, v, pk.keys), <<"\n">>)),
          err |-> None]

\* VersionViewBuilder.build: the str returned, or the exception raised
view_build(b, v) == Rendered(b, v, print_keys(b))

\* 'bogus', 'xml', 'my_', 'a"b', 'x,y\\z'
S_bogus == <<"b", "o", "g", "u", "s">>
S_xml == <<"x", "m", "l">>
S_my_ == <<"m", "y", "_">>
S_quoted == <<"a", "\"", "b">>
S_comma == <<"x", ",", "y", "\\", "z">>

\* the show values: None, 'all', and the lists of 1..MaxShow names, the empty
\* name and an unknown one among them
ShowNames == {<<>>, FieldName("major"), FieldName("minor"), FieldName("branch"), S_bogus}
Shows ==
    {None, Some(S_all)}
    \cup {Some(Join(ks, <<",">>)) : ks \in UNION {[1..n -> ShowNames] : n \in 1..MaxShow}}
Formats == {S_csv, S_json, S_env, S_xml}
EnvPrefixes == {S_VERSION_, S_my_}

\* the records a view is made for: Version(), Version(major=1, minor=2), a
\* record as get_version returns it, and one with '"', ',' and '\' in its strs
ViewRecords ==
    {Version,
     VersionWith([major |-> Some(1), minor |-> Some(2)]),
     VersionWith([major |-> Some(0), minor |-> Some(3), patch |-> Some(0),
                  commits |-> Some(1), hash |-> Some(<<"c", "3">>),
                  branch |-> Some(S_main), last_tag |-> Some(S_plain_tag),
                  last_hash |-> Some(<<"c", "2">>), tag |-> Some(<<"0", ".", "3", ".", "0">>),
                  semver |-> Some(<<"0", ".", "3", ".", "0">>), semver_full |-> Some(<<"0", ".", "3", ".", "0">>),
                  pep440 |-> Some(<<"0", ".", "3", ".", "0">>), nuget |-> Some(<<"0", ".", "3", ".", "0">>),
                  timestamp |-> Some(S_now)]),
     VersionWith([major |-> Some(MaxNum), branch |-> Some(S_quoted),
                  hash |-> Some(S_comma)])}

Building == view # None /\ output = None /\ err = None
Setting(b) ==
    /\ view' = Some(b)
    /\ UNCHANGED <<ctx, env, ver, funcs, pc, err, returned, calls, repo, output, runner>>

withShow == Building /\ \E show \in Shows : Setting([Get(view) EXCEPT !.show = show])

withFormat ==
    Building /\ \E format \in Formats : Setting([Get(view) EXCEPT !.format = format])

withJsonPretty ==
    Building /\ \E json_pretty \in BOOLEAN :
                   Setting([Get(view) EXCEPT !.json_pretty = json_pretty])

withCsvHeader ==
    Building /\ \E csv_header \in BOOLEAN :
                   Setting([Get(view) EXCEPT !.csv_header = csv_header])

withEnvPrefix ==
    Building /\ \E env_prefix \in EnvPrefixes :
                   Setting([Get(view) EXCEPT !.env_prefix = env_prefix])

withNoQuotes == Building /\ Setting([Get(view) EXCEPT !.no_quotes = TRUE])

\* build(), once for a builder: the returned str, or the exception
build ==
    /\ Building
    /\ output' = view_build(Get(view), ver).out
    /\ err' = view_build(Get(view), ver).err
    /\ UNCHANGED <<ctx, env, ver, funcs, pc, returned, calls, repo, view, runner>>

NextView ==
    \/ withShow
    \/ withFormat
    \/ withJsonPretty
    \/ withCsvHeader
    \/ withEnvPrefix
    \/ withNoQuotes
    \/ build

\* VersionViewBuilder(ver) for a record ver; no step of get_version is running
InitView ==
    /\ ver \in ViewRecords
    /\ view = Some(VersionViewBuilder)
    /\ output = None
    /\ runner = None
    /\ err = None
    /\ ctx = DefaultContext
    /\ env = NoEnviron
    /\ funcs = <<>>
    /\ pc = Aborted
    /\ returned = None
    /\ calls = <<>>
    /\ repo = None

SpecView == InitView /\ [][NextView]_vars

----------------------------------------------------------------------------
(* The task runner: _process_tasks and _resolve_deps *)

\* an exception a task function raises that is no KeyboardInterrupt
TaskError == [type |-> "Exception", msg |-> "task failed", args |-> <<>>]

\* the frame of a call dfs(task): dep is the place in the deps of task of the
\* dependency the for loop takes next
Frame(task, dep) == [task |-> task, dep |-> dep]

\* _process_tasks after the tasks were loaded and the arguments parsed: tasks is
\* the dict of the loaded tasks (name -> deps), args the parsed args.tasks and
\* help the parsed args.help; at is where _process_tasks is ("validate",
\* "resolve" in _resolve_deps, "runtime" in the runtime loop, "returned", or
\* "raised" when an exception has left it); resolved, visited and the stack of
\* dfs frames are those of _resolve_deps, next the place in tasks_to_resolve of
\* its for loop; ran lists the task functions called, j is the place of the
\* runtime loop
TaskRun(tasks, args, help) ==
    [tasks |-> tasks, args |-> args, help |-> help, at |-> "validate",
     printed_help |-> FALSE, resolved |-> <<>>, visited |-> {}, stack |-> <<>>,
     next |-> 1, ran |-> <<>>, j |-> 1]

\* tasks_with_deps and the task_dict made of it: name -> {"deps": deps}
task_dict(tasks) == [t \in DOMAIN tasks |-> [deps |-> tasks[t]]]

\* the deps with only the first one followed
DepsOfFirstOnly(r, task) ==
    IF task \in DOMAIN task_dict(r.tasks) /\ Len(task_dict(r.tasks)[task].deps) > 0
    THEN <<task_dict(r.tasks)[task].deps[1]>>
    ELSE <<>>

\* task_dict.get(task, {}).get("deps", [])
DepsOf(r, task) ==
    IF task \in DOMAIN task_dict(r.tasks) THEN task_dict(r.tasks)[task].deps ELSE <<>>

\* the call dfs(task) up to its for loop: nothing for a resolved task, the
\* ValueError for a task that is being visited, a new frame otherwise
dfs(r, task) ==
    IF \E i \in 1..Len(r.resolved) : r.resolved[i] = task
    THEN [run |-> r, err |-> None]
    ELSE IF task \in r.visited
    THEN [run |-> [r EXCEPT !.at = "raised"],
          err |-> Some(ValueError("Circular dependency detected", <<>>))]
    ELSE [run |-> [r EXCEPT !.visited = r.visited \cup {task},
                            !.stack = Append(r.stack, Frame(task, 1))],
          err |-> None]

\* a task that is being visited passed over like a resolved one
dfs_unless_seen(r, x) ==
    IF (\E i \in 1..Len(r.resolved) : r.resolved[i] = x) \/ x \in r.visited
    THEN [run |-> r, err |-> None]
    ELSE dfs(r, x)

\* "if x not in resolved: dfs(x)"
dfs_unless_resolved(r, x) ==
    IF \E i \in 1..Len(r.resolved) : r.resolved[i] = x
    THEN [run |-> r, err |-> None]
    ELSE dfs(r, x)

Running == runner # None /\ err = None
Top == Get(runner).stack[Len(Get(runner).stack)]

TaskStep(o) ==
    /\ runner' = Some(o.run)
    /\ err' = o.err
    /\ UNCHANGED <<ctx, env, ver, funcs, pc, returned, calls, repo, view, output>>

\* _process_tasks: the help for no task or -h, and for an unknown task; else on
\* to _resolve_deps
validate_tasks ==
    /\ Running
    /\ Get(runner).at = "validate"
    /\ LET r == Get(runner)
       IN IF Len(r.args) = 0 \/ r.help
             \/ \E i \in 1..Len(r.args) : r.args[i] \notin DOMAIN r.tasks
          THEN TaskStep([run |-> [r EXCEPT !.printed_help = TRUE, !.at = "returned"],
                         err |-> None])
          ELSE TaskStep([run |-> [r EXCEPT !.at = "resolve"], err |-> None])

\* _resolve_deps: one turn of "for task in tasks_to_resolve"
resolve_deps_for ==
    /\ Running
    /\ Get(runner).at = "resolve"
    /\ Get(runner).stack = <<>>
    /\ Get(runner).next <= Len(Get(runner).args)
    /\ LET r == Get(runner)
       IN TaskStep(dfs_unless_resolved([r EXCEPT !.next = r.next + 1], r.args[r.next]))

\* dfs: one turn of "for dep in deps" in the innermost call
dfs_for ==
    /\ Running
    /\ Get(runner).at = "resolve"
    /\ Get(runner).stack # <<>>
    /\ Top.dep <= Len(DepsOf(Get(runner), Top.task))
    /\ LET r == Get(runner)
           n == Len(r.stack)
       IN TaskStep(dfs_unless_resolved([r EXCEPT !.stack[n].dep = Top.dep + 1],
                                       DepsOf(r, Top.task)[Top.dep]))

\* dfs: the end of the innermost call, after its for loop
dfs_return ==
    /\ Running
    /\ Get(runner).at = "resolve"
    /\ Get(runner).stack # <<>>
    /\ Top.dep > Len(DepsOf(Get(runner), Top.task))
    /\ LET r == Get(runner)
       IN TaskStep([run |-> [r EXCEPT !.visited = r.visited \ {Top.task},
                                      !.resolved = Append(r.resolved, Top.task),
                                      !.stack = SubSeq(r.stack, 1, Len(r.stack) - 1)],
                    err |-> None])

\* _resolve_deps returns resolved: on to the runtime loop
resolve_deps_return ==
    /\ Running
    /\ Get(runner).at = "resolve"
    /\ Get(runner).stack = <<>>
    /\ Get(runner).next > Len(Get(runner).args)
    /\ TaskStep([run |-> [Get(runner) EXCEPT !.at = "runtime"], err |-> None])

\* what a task function does: it returns, it is interrupted, or it fails
Outcomes == {"returns", "KeyboardInterrupt", "raises"}

\* one turn of the runtime loop: the function of a loaded task is called, a
\* KeyboardInterrupt is passed over, any other exception leaves _process_tasks
run_task ==
    /\ Running
    /\ Get(runner).at = "runtime"
    /\ Get(runner).j <= Len(Get(runner).resolved)
    /\ LET r == Get(runner)
           task_name == r.resolved[r.j]
       IN IF task_name \in DOMAIN r.tasks
          THEN \E outcome \in Outcomes :
                  IF outcome = "raises"
                  THEN TaskStep([run |-> [r EXCEPT !.ran = Append(r.ran, task_name),
                                                   !.at = "raised"],
                                 err |-> Some(TaskError)])
                  ELSE TaskStep([run |-> [r EXCEPT !.ran = Append(r.ran, task_name),
                                                   !.j = r.j + 1],
                                 err |-> None])
          ELSE TaskStep([run |-> [r EXCEPT !.j = r.j + 1], err |-> None])

\* the end of _process_tasks
process_tasks_return ==
    /\ Running
    /\ Get(runner).at = "runtime"
    /\ Get(runner).j > Len(Get(runner).resolved)
    /\ TaskStep([run |-> [Get(runner) EXCEPT !.at = "returned"], err |-> None])

NextTasks ==
    \/ validate_tasks
    \/ resolve_deps_for
    \/ dfs_for
    \/ dfs_return
    \/ resolve_deps_return
    \/ run_task
    \/ process_tasks_return

\* the task names, the deps a task is added with, the dicts of loaded tasks
\* (with 'c' loaded or not) and the tasks named on the command line
TaskNames == {"a", "b", "c"}
DepLists ==
    {<<>>} \cup {<<t>> : t \in TaskNames} \cup {<<t, u>> : t \in TaskNames, u \in TaskNames}
TaskDicts == UNION {[loaded -> DepLists] : loaded \in {{"a", "b", "c"}, {"a", "b"}}}
ArgLists ==
    {<<>>} \cup {<<t>> : t \in TaskNames} \cup {<<t, u>> : t \in TaskNames, u \in TaskNames}

\* _process_tasks() with the tasks loaded and the command line parsed; no step
\* of get_version is running and no view is made
InitTasks ==
    /\ \E tasks \in TaskDicts, args \in ArgLists, help \in BOOLEAN :
          runner = Some(TaskRun(tasks, args, help))
    /\ err = None
    /\ ver = Version
    /\ ctx = DefaultContext
    /\ env = NoEnviron
    /\ funcs = <<>>
    /\ pc = Aborted
    /\ returned = None
    /\ calls = <<>>
    /\ repo = None
    /\ view = None
    /\ output = None

SpecTasks == InitTasks /\ [][NextTasks]_vars

\* the same with _process_tasks going on while it can: the interpreter runs it
\* to its end
SpecTasksFair == SpecTasks /\ WF_vars(NextTasks)

----------------------------------------------------------------------------
(* Vocabulary of the properties *)

\* the step called last, the record it was given, and whether it has acted
Last == calls[Len(calls)]
After(name) == Len(calls) > 0 /\ Last.step = name
Before == Last.before
Succeeded_(name) == After(name) /\ err = None
RaisedMsg(msg) == err # None /\ Get(err).type = "ValueError" /\ Get(err).msg = msg

\* an optional str that is None, empty or only whitespace
Blank(o) == o = None \/ \A i \in 1..Len(Get(o)) : Get(o)[i] \in {" ", "\t", "\n", "\r"}

\* 'a.b.c' written out
Abc(a, b, c) == IntToStr(a) \o <<".">> \o IntToStr(b) \o <<".">> \o IntToStr(c)

\* the number of '/'-separated segments of a branch name
NumSegs(b) == Cardinality({i \in 1..Len(b) : b[i] = "/"}) + 1

ComponentsUnset(v) == v.major = None /\ v.minor = None /\ v.patch = None
Components(v, a, b, c) == v.major = Some(a) /\ v.minor = Some(b) /\ v.patch = Some(c)

----------------------------------------------------------------------------
(* C1 *)

\* the prefix a record carries: '' when tag_prefix is None
PrefixOf(v) == IF v.tag_prefix = None THEN <<>> ELSE Get(v.tag_prefix)

\* last_tag is the record's prefix followed by body
TagIs(v, body) == v.last_tag # None /\ Get(v.last_tag) = PrefixOf(v) \o body

Incremented(inc, a, b, c) ==
    CASE inc = "MAJOR" -> Components(ver, a + 1, 0, 0)
      [] inc = "MINOR" -> Components(ver, a, b + 1, 0)
      [] inc = "PATCH" -> Components(ver, a, b, c + 1)

\* C1: when build_version_components is given a last_tag that is the record's
\* tag_prefix followed by 'a.b.c' for numbers a, b, c, it succeeds and leaves
\* (major, minor, patch) = (a+1, 0, 0) for MAJOR, (a, b+1, 0) for MINOR and
\* (a, b, c+1) for PATCH.
C1_IncrementFromLastTag ==
    After("build_version_components") =>
        \A a \in 0..MaxNum :
            StartsWith(DropFirst(FmtStr(Before.last_tag), Len(PrefixOf(Before))),
                       IntToStr(a) \o <<".">>) =>
                \A b \in 0..MaxNum, c \in 0..MaxNum :
                    TagIs(Before, Abc(a, b, c)) =>
                        err = None /\ Incremented(ctx.increment, a, b, c)

\* MINOR on 'v9.10.3' with tag_prefix 'v' has given 9.11.0
C1_Witness ==
    /\ After("build_version_components")
    /\ ctx.increment = "MINOR"
    /\ Before.tag_prefix = Some(S_v)
    /\ TagIs(Before, Abc(9, 10, 3))
    /\ Components(ver, 9, 11, 0)

----------------------------------------------------------------------------
(* C2 *)

\* s is three non-empty runs of the digits 0-9 separated by two '.'
ThreeNumbers(s) ==
    LET dots == {i \in 1..Len(s) : s[i] = "."}
    IN /\ Cardinality(dots) = 2
       /\ \A i \in 1..Len(s) : i \notin dots => s[i] \in Range(DigitChars)
       /\ 1 \notin dots /\ Len(s) \notin dots
       /\ \A i \in dots : i + 1 \notin dots

\* C2: build_version_components fails with 'No last_tag found.' when last_tag
\* is unset or blank, and with 'Invalid tag format. Expected 1.2.3' when what
\* is left of last_tag once the record's tag_prefix is stripped (last_ver) is
\* not three '.'-separated parts of digits; whenever it fails, major, minor
\* and patch are left unset.
C2_InvalidTagRejected ==
    After("build_version_components") =>
        /\ Blank(Before.last_tag) => RaisedMsg("No last_tag found.")
        /\ (~Blank(Before.last_tag) /\ ~ThreeNumbers(LastVer(Before)))
               => RaisedMsg("Invalid tag format. Expected 1.2.3")
        /\ err # None => ComponentsUnset(ver)

----------------------------------------------------------------------------
(* C3 *)

\* C3: get_version calls the steps of its list in the listed order, each once,
\* on one record that starts as an empty Version() and is handed from step to
\* step; the step that raises is the last one called, and then nothing is
\* returned; what is returned is the record after the last step of the list.
C3_StepsInOrderUntilRaise ==
    /\ Len(calls) <= Len(funcs)
    /\ \A i \in 1..Len(calls) :
          /\ calls[i].step = funcs[i]
          /\ calls[i].before = (IF i = 1 THEN Version ELSE calls[i - 1].after)
          /\ calls[i].raised => i = Len(calls)
    /\ Len(calls) > 0 => ver = Last.after
    /\ err # None <=> (Len(calls) > 0 /\ Last.raised)
    /\ err # None => returned = None
    /\ returned # None => Len(calls) = Len(funcs) /\ returned = Some(ver)

\* get_detached_branch, the ninth step, has raised after eight steps went through
C3_Witness ==
    /\ Len(calls) = 9
    /\ Last.step = "get_detached_branch"
    /\ err # None
    /\ returned = None
    /\ \A i \in 1..8 : ~calls[i].raised

----------------------------------------------------------------------------
(* C4 *)

\* the suffix of a version with separator sep: none on main and master,
\* otherwise sep + branch + '.' + commits
BranchSuffix(v, sep) ==
    IF v.branch = Some(S_main) \/ v.branch = Some(S_master) THEN <<>>
    ELSE sep \o Get(v.branch) \o <<".">> \o IntToStr(Get(v.commits))

\* 'major.minor.patch' of a record whose components are set
SemverOf(v) == Abc(Get(v.major), Get(v.minor), Get(v.patch))

\* C4: after build_semver succeeds, semver is 'major.minor.patch' and
\* semver_full is semver on the branches 'main' and 'master', and otherwise
\* semver + '-' + branch + '.' + commits.
C4_SemverFull ==
    Succeeded_("build_semver") =>
        /\ ver.semver = Some(SemverOf(Before))
        /\ ver.semver_full = Some(SemverOf(Before) \o BranchSuffix(Before, <<"-">>))

\* build_semver has given '1.0.10' and '1.0.10-dev.11'
C4_Witness ==
    /\ Succeeded_("build_semver")
    /\ Components(Before, 1, 0, 10)
    /\ Before.branch = Some(S_dev)
    /\ Before.commits = Some(11)
    /\ ver.semver = Some(Abc(1, 0, 10))
    /\ ver.semver_full = Some(Abc(1, 0, 10) \o <<"-">> \o S_dev \o <<".", "1", "1">>)

----------------------------------------------------------------------------
(* C5 *)

\* the validate_semver gate: components set, branch not blank, commits set
PassesGate(v) ==
    /\ v.major # None /\ v.minor # None /\ v.patch # None
    /\ ~Blank(v.branch)
    /\ v.commits # None

\* C5: for every record that passes the validate_semver gate, build_pep440
\* sets pep440 to 'major.minor.patch' followed by nothing on main and master
\* and by '+' + branch + '.' + commits otherwise.
C5_Pep440 ==
    (After("build_pep440") /\ PassesGate(Before)) =>
        /\ err = None
        /\ ver.pep440 = Some(SemverOf(Before) \o BranchSuffix(Before, <<"+">>))

----------------------------------------------------------------------------
(* C6 *)

\* C6: after build_nuget succeeds, nuget has at most 20 characters; it is the
\* semver_full value ('major.minor.patch' and the '-' suffix) when that has 20
\* characters or fewer, and otherwise its first 10 characters followed by its
\* last 10; truncating nuget again changes nothing.
C6_Nuget ==
    Succeeded_("build_nuget") =>
        LET composed == SemverOf(Before) \o BranchSuffix(Before, <<"-">>)
            n == Len(composed)
        IN /\ Len(Get(ver.nuget)) <= 20
           /\ n <= 20 => ver.nuget = Some(composed)
           /\ n > 20 => ver.nuget = Some(SubSeq(composed, 1, 10) \o SubSeq(composed, n - 9, n))
           /\ NugetTruncate(Get(ver.nuget)) = Get(ver.nuget)

----------------------------------------------------------------------------
(* C7 *)

\* the strip count of the context: 0 when unset
StripCount == IF ctx.strip_branch_components = None THEN 0
              ELSE Get(ctx.strip_branch_components)

\* C7: with a strip count n >= 1, strip_branch_components fails with 'No
\* branch found.' when branch is unset or blank, and fails with a ValueError
\* naming n and the branch when n is at least the number of '/'-separated
\* segments of branch; in both cases branch stays as it was.
C7_StripTooMany ==
    (After("strip_branch_components") /\ StripCount >= 1) =>
        /\ Blank(Before.branch) =>
              RaisedMsg("No branch found.") /\ ver.branch = Before.branch
        /\ (~Blank(Before.branch) /\ StripCount >= NumSegs(Get(Before.branch))) =>
              /\ RaisedMsg("Cannot strip {} components from a branch '{}' with only {} component(s)")
              /\ Get(err).args[1] = IntToStr(StripCount)
              /\ Get(err).args[2] = Get(Before.branch)
              /\ ver.branch = Before.branch

\* stripping 2 components of the two-segment branch 'dev/main' has failed
C7_Witness ==
    /\ After("strip_branch_components")
    /\ StripCount = 2
    /\ Before.branch = Some(S_dev_main)
    /\ err # None
    /\ Get(err).args = <<IntToStr(2), S_dev_main, IntToStr(2)>>
    /\ ver.branch = Some(S_dev_main)

----------------------------------------------------------------------------
(* C8 *)

\* r is what is left of b after its first n segments and their '/' are removed
IsWithoutFirstSegs(r, b, n) ==
    LET cut == Len(b) - Len(r)
    IN /\ cut >= 1
       /\ r = SubSeq(b, cut + 1, Len(b))
       /\ b[cut] = "/"
       /\ NumSegs(SubSeq(b, 1, cut - 1)) = n

\* C8: strip_branch_components leaves the record as it is, and raises nothing,
\* when the strip count is unset or zero, whatever the branch; with a strip
\* count n, 1 <= n < number of segments of branch, it sets branch to the
\* segments from the n-th on, joined by '/': a suffix of the branch with n
\* segments fewer; no other field changes.
C8_StripComponents ==
    After("strip_branch_components") =>
        /\ StripCount = 0 => err = None /\ ver = Before
        /\ (Before.branch # None /\ StripCount >= 1
              /\ StripCount < NumSegs(Get(Before.branch))) =>
              /\ err = None
              /\ ver.branch # None
              /\ IsWithoutFirstSegs(Get(ver.branch), Get(Before.branch), StripCount)
              /\ NumSegs(Get(ver.branch)) = NumSegs(Get(Before.branch)) - StripCount
              /\ ver = [Before EXCEPT !.branch = ver.branch]

\* stripping 2 components of 'dev/name/jira-1234-foo' has left 'jira-1234-foo'
C8_Witness ==
    /\ After("strip_branch_components")
    /\ StripCount = 2
    /\ Before.branch = Some(S_jira_foo)
    /\ ver.branch = Some(S_jira)

----------------------------------------------------------------------------
(* C9 *)

\* the branch the run has determined: the one get_detached_branch left
Determined ==
    LET j == CHOOSE i \in 1..Len(calls) : calls[i].step = "get_detached_branch"
    IN Get(calls[j].after.branch)
HasDetermined ==
    \E i \in 1..Len(calls) : calls[i].step = "get_detached_branch" /\ ~calls[i].raised

\* the last m segments of b with their '/'
LastSegs(b, m) ==
    LET i == CHOOSE i \in 1..(Len(b) + 1) :
                 /\ i = 1 \/ b[i - 1] = "/"
                 /\ NumSegs(SubSeq(b, i, Len(b))) = m
    IN SubSeq(b, i, Len(b))

\* every character outside a-z, A-Z, 0-9 replaced by '-'
Dashed(s) ==
    [i \in 1..Len(s) |->
        IF s[i] \in Range(DigitChars) \cup Range(UpperChars) \cup Range(LowerChars)
        THEN s[i] ELSE "-"]

StripsBeforeSanitizing ==
    /\ \A i \in 1..Len(calls) : calls[i].step = "strip_branch_components" => ~calls[i].raised
    /\ returned # None =>
          ver.branch = Some(Dashed(LastSegs(Determined, NumSegs(Determined) - StripCount)))

\* C9 as stated: in the default pipeline, for a determined branch of k segments
\* and a strip count n < k, stripping does not fail and the returned branch is
\* the last k-n segments, sanitized, and semver_full is always
\* 'major.minor.patch-' + branch + '.' + commits.
C9_AsStated ==
    (HasDetermined /\ StripCount < NumSegs(Determined)) =>
        /\ StripsBeforeSanitizing
        /\ returned # None =>
              ver.semver_full =
                  Some(SemverOf(ver) \o <<"-">> \o Get(ver.branch) \o <<".">>
                       \o IntToStr(Get(ver.commits)))

\* C9, amended: in the default pipeline, for a determined branch of k segments
\* and a strip count n < k, stripping does not fail and the returned branch is
\* the last k-n segments, sanitized; semver_full is 'major.minor.patch-' +
\* branch + '.' + commits unless that branch is 'main' or 'master', and then
\* it is 'major.minor.patch'.
C9_StripThenSanitize ==
    (HasDetermined /\ StripCount < NumSegs(Determined)) =>
        /\ StripsBeforeSanitizing
        /\ returned # None =>
              ver.semver_full = Some(SemverOf(ver) \o BranchSuffix(ver, <<"-">>))

\* 'dev/name/jira-1234-foo' with a strip count of 2 has come out as
\* 'jira-1234-foo' and '0.3.0-jira-1234-foo.1'
C9_Witness ==
    /\ returned # None
    /\ StripCount = 2
    /\ Determined = S_jira_foo
    /\ ver.branch = Some(S_jira)
    /\ ver.semver_full = Some(Abc(0, 3, 0) \o <<"-">> \o S_jira \o <<".", "1">>)

----------------------------------------------------------------------------
(* C10 *)

AlnumDash == Range(DigitChars) \cup Range(UpperChars) \cup Range(LowerChars) \cup {"-"}

\* C10: sanitize_branch_name fails with 'No branch found.' when branch is unset
\* or blank; otherwise it succeeds and the new branch has the length of the old
\* one, keeps every character of a-z, A-Z, 0-9 in its place, has '-' in every
\* other place, and is left as it is by another sanitizing.
C10_Sanitize ==
    After("sanitize_branch_name") =>
        IF Blank(Before.branch)
        THEN RaisedMsg("No branch found.") /\ ver = Before
        ELSE LET old == Get(Before.branch)
                 new == Get(ver.branch)
             IN /\ err = None
                /\ Len(new) = Len(old)
                /\ \A i \in 1..Len(old) :
                      /\ new[i] \in AlnumDash
                      /\ old[i] \in AlnumDash \ {"-"} => new[i] = old[i]
                      /\ old[i] \notin AlnumDash \ {"-"} => new[i] = "-"
                /\ sanitize_branch_name(ctx, ver) = Ok(ver)

\* 'feature/add_x.y' has become 'feature-add-x-y'
C10_Witness ==
    /\ After("sanitize_branch_name")
    /\ Before.branch = Some(S_feature)
    /\ ver.branch = Some(<<"f", "e", "a", "t", "u", "r", "e", "-", "a", "d", "d", "-",
                            "x", "-", "y">>)

----------------------------------------------------------------------------
(* C11 *)

\* s begins with the characters of p
BeginsWith(s, p) == Len(p) <= Len(s) /\ \A i \in 1..Len(p) : s[i] = p[i]

NonEmpty(o) == o # None /\ Len(Get(o)) > 0

\* C11: apply_tag_prefix fails with 'No last_tag found.' when last_tag is unset
\* or blank and otherwise succeeds; it never changes last_tag; after it the
\* record's tag_prefix is non-empty only if the context's tag_prefix is set
\* and last_tag starts with it, and then it is the context's tag_prefix; a
\* non-empty context prefix that last_tag starts with is taken over.
C11_TagPrefixOnlyWhenTagHasIt ==
    After("apply_tag_prefix") =>
        /\ Blank(Before.last_tag) <=> RaisedMsg("No last_tag found.")
        /\ ~Blank(Before.last_tag) => err = None
        /\ ver.last_tag = Before.last_tag
        /\ NonEmpty(ver.tag_prefix) =>
              /\ ctx.tag_prefix # None
              /\ BeginsWith(Get(ver.last_tag), Get(ctx.tag_prefix))
              /\ ver.tag_prefix = ctx.tag_prefix
        /\ (err = None /\ NonEmpty(ctx.tag_prefix)
              /\ BeginsWith(Get(Before.last_tag), Get(ctx.tag_prefix))) =>
              ver.tag_prefix = ctx.tag_prefix

\* the prefix 'v' has been taken from the context for the last tag 'v0.2.0'
C11_Witness ==
    /\ After("apply_tag_prefix")
    /\ ctx.tag_prefix = Some(S_v)
    /\ Before.last_tag = Some(S_prefixed_tag)
    /\ Before.tag_prefix = None
    /\ ver.tag_prefix = Some(S_v)
    /\ ver.last_tag = Some(S_prefixed_tag)

----------------------------------------------------------------------------
(* C12 *)

\* C12: after build_tag succeeds, tag is the record's tag_prefix ('' when it
\* is unset) followed by 'major.minor.patch' of the components the record
\* holds, and no other field has changed.
C12_Tag ==
    Succeeded_("build_tag") =>
        /\ ver.tag = Some(PrefixOf(Before) \o SemverOf(Before))
        /\ ver = [Before EXCEPT !.tag = ver.tag]

\* build_tag has given 'v1.0.10' for 1, 0, 10 and the prefix 'v'
C12_Witness ==
    /\ Succeeded_("build_tag")
    /\ Components(Before, 1, 0, 10)
    /\ Before.tag_prefix = Some(S_v)
    /\ ver.tag = Some(<<"v", "1", ".", "0", ".", "1", "0">>)

----------------------------------------------------------------------------
(* C13 *)

FormatBuilders == {"build_tag", "build_semver", "build_pep440", "build_nuget"}

ComponentsSet(v) == v.major # None /\ v.minor # None /\ v.patch # None

\* the value of a component is written as a numeral: it is an integer
Numeral(x) ==
    \E d \in {"-", "0", "1", "2", "3", "4", "5", "6", "7", "8", "9"} :
        Head(ToString(x)) = d
NotAnInteger(o) == o = None \/ ~Numeral(Get(o))

----------------------------------------------------------------------------
(* C14 *)

SemverBuilders == {"build_semver", "build_pep440", "build_nuget"}

\* C14: with major, minor and patch set, build_semver, build_pep440 and
\* build_nuget each fail with 'No branch found.' when branch is unset or blank
\* and with 'No commits found.' when branch is there and commits is unset,
\* leaving the record as it was; with a branch and commits set, 0 included,
\* they succeed.
C14_BranchAndCommitsRequired ==
    \A f \in SemverBuilders :
        (After(f) /\ ComponentsSet(Before)) =>
            /\ Blank(Before.branch) =>
                  RaisedMsg("No branch found.") /\ ver = Before
            /\ (~Blank(Before.branch) /\ Before.commits = None) =>
                  RaisedMsg("No commits found.") /\ ver = Before
            /\ (~Blank(Before.branch) /\ Before.commits # None) => err = None

\* build_pep440 has failed for want of commits, and build_semver would have
\* accepted the same record with 0 commits
C14_Witness ==
    /\ After("build_pep440")
    /\ Components(Before, 1, 0, 0)
    /\ Before.branch = Some(S_dev)
    /\ Before.commits = None
    /\ RaisedMsg("No commits found.")
    /\ ver.pep440 = None
    /\ build_semver(ctx, [Before EXCEPT !.commits = Some(0)]).err = None

----------------------------------------------------------------------------
(* C15 *)

\* C15: whatever the record holds and whatever the repository queries answer,
\* a step that fails raises a ValueError that carries a message; no step
\* fails in another way.
C15_FailuresAreValueErrors ==
    err # None => Get(err).type = "ValueError" /\ Get(err).msg # ""

----------------------------------------------------------------------------
(* C16 *)

\* C16: in the default pipeline get_hash never raises, and a failing query
\* makes it return the record as it was, hash unset; get_last_tag raises 'No
\* hash found.' whenever hash is unset or blank, leaving the record as it was,
\* so once get_last_tag has gone through the record has a hash.
C16_HashFailureSurfacesAtLastTag ==
    /\ get_hash(ctx, ver, Failed) = Ok(ver)
    /\ \A i \in 1..Len(calls) :
          /\ calls[i].step = "get_hash" =>
                /\ ~calls[i].raised
                /\ calls[i].after.hash = None => calls[i].after = calls[i].before
          /\ (calls[i].step = "get_last_tag" /\ Blank(calls[i].before.hash)) =>
                /\ calls[i].raised
                /\ RaisedMsg("No hash found.")
                /\ calls[i].after = calls[i].before
          /\ (calls[i].step = "get_last_tag" /\ ~calls[i].raised) => ~Blank(ver.hash)

\* get_hash has gone through leaving hash unset, and get_last_tag has raised
C16_Witness ==
    /\ Len(calls) = 4
    /\ calls[3].step = "get_hash"
    /\ ~calls[3].raised
    /\ calls[3].after.hash = None
    /\ After("get_last_tag")
    /\ RaisedMsg("No hash found.")
    /\ returned = None

----------------------------------------------------------------------------
(* C17 *)

\* a tag of the kind the run looks for: one that starts with the context's
\* tag_prefix, or with a digit when there is no prefix
Sought(t) ==
    IF ctx.tag_prefix = None THEN Len(t) > 0 /\ t[1] \in Range(DigitChars)
    ELSE BeginsWith(t, Get(ctx.tag_prefix))

\* a main history of three commits tagged 0.1.0, 0.2.0, 0.3.0, checked out at
\* the last one, with no tag prefix, no strip count and no GITHUB_HEAD_REF
AtThirdTag ==
    /\ repo # None
    /\ Len(Get(repo).history) = 3
    /\ \A k \in 1..3 : Abc(0, k, 0) \in Get(repo).history[k].tags
    /\ Get(repo).head = 3
    /\ Get(repo).checkout = Some(S_main)
    /\ ctx = VersionContext("MINOR", None, None)
    /\ env = Environ(None)

PastLastTag == \E i \in 1..Len(calls) : calls[i].step = "get_last_tag" /\ ~calls[i].raised

\* C17: the last tag is searched from the parent of the current commit: the
\* last_tag of a run is never a tag of the current commit, it is a tag of the
\* nearest earlier commit that has a tag of the kind sought, and last_hash is
\* that commit; on a main history tagged 0.1.0, 0.2.0, 0.3.0 the default
\* pipeline with MINOR at the 0.3.0 commit returns last_tag '0.2.0', last_hash
\* the 0.2.0 commit, commits 1, tag '0.3.0', semver '0.3.0', semver_full '0.3.0'.
C17_LastTagFromParent ==
    /\ (PastLastTag /\ ver.last_tag # None) =>
          LET r == Get(repo)
              t == Get(ver.last_tag)
          IN /\ t \notin r.history[r.head].tags
             /\ Sought(t)
             /\ \E j \in 1..(r.head - 1) :
                   /\ t \in r.history[j].tags
                   /\ ver.last_hash = Some(r.history[j].hash)
                   /\ \A k \in (j + 1)..(r.head - 1) :
                         \A u \in r.history[k].tags : ~Sought(u)
    /\ AtThirdTag =>
          /\ err = None
          /\ returned # None =>
                /\ ver.last_tag = Some(Abc(0, 2, 0))
                /\ ver.last_hash = Some(Get(repo).history[2].hash)
                /\ ver.commits = Some(1)
                /\ ver.tag = Some(Abc(0, 3, 0))
                /\ ver.semver = Some(Abc(0, 3, 0))
                /\ ver.semver_full = Some(Abc(0, 3, 0))

\* the run at the 0.3.0 commit has returned 0.3.0, built on the last tag 0.2.0
C17_Witness ==
    /\ AtThirdTag
    /\ returned # None
    /\ ver.hash = Some(<<"c", "3">>)
    /\ ver.last_tag = Some(<<"0", ".", "2", ".", "0">>)
    /\ ver.last_hash = Some(<<"c", "2">>)
    /\ ver.commits = Some(1)
    /\ ver.semver_full = Some(<<"0", ".", "3", ".", "0">>)

----------------------------------------------------------------------------
(* C18 *)

Whitespace == {" ", "\t", "\n", "\r"}

\* t is s without its leading and trailing whitespace
IsTrimOf(t, s) ==
    /\ Len(t) > 0 => t[1] \notin Whitespace /\ t[Len(t)] \notin Whitespace
    /\ \E a \in 0..Len(s) :
          /\ a + Len(t) <= Len(s)
          /\ \A i \in 1..Len(t) : s[a + i] = t[i]
          /\ \A i \in 1..Len(s) : (i <= a \/ i > a + Len(t)) => s[i] \in Whitespace

GithubRef == env.GITHUB_HEAD_REF

\* what holds of the two steps whatever GITHUB_HEAD_REF is: get_github_branch
\* sets branch to the trimmed value of a present variable and leaves the
\* record alone otherwise; get_branch queries the abbreviated ref exactly when
\* branch is unset or blank, fails with 'No git branch found.' when the query
\* errors and takes the trimmed answer otherwise
BranchSteps ==
    \A i \in 1..Len(calls) :
        /\ calls[i].step = "get_github_branch" =>
              /\ ~calls[i].raised
              /\ GithubRef = None => calls[i].after = calls[i].before
              /\ GithubRef # None =>
                    /\ calls[i].after.branch # None
                    /\ IsTrimOf(Get(calls[i].after.branch), Get(GithubRef))
        /\ calls[i].step = "get_branch" =>
              /\ Blank(calls[i].before.branch) <=> Len(calls[i].queries) = 1
              /\ ~Blank(calls[i].before.branch) =>
                    calls[i].queries = <<>> /\ ~calls[i].raised
                    /\ calls[i].after = calls[i].before
              /\ Blank(calls[i].before.branch) =>
                    LET q == calls[i].queries[1]
                    IN /\ q.cmd = "rev-parse --abbrev-ref HEAD"
                       /\ q.result.returncode # 0 =>
                             /\ calls[i].raised
                             /\ RaisedMsg("No git branch found.")
                             /\ calls[i].after = calls[i].before
                       /\ q.result.returncode = 0 =>
                             /\ ~calls[i].raised
                             /\ calls[i].after.branch # None
                             /\ IsTrimOf(Get(calls[i].after.branch), q.result.stdout)

\* get_branch, when called under the condition ref, has asked git nothing and
\* has left the record, with the branch taken from GITHUB_HEAD_REF, as it was
RefOverrides(ref) ==
    \A i \in 1..Len(calls) :
        (calls[i].step = "get_branch" /\ ref) =>
            /\ calls[i].queries = <<>>
            /\ calls[i].after = calls[i].before
            /\ IsTrimOf(Get(calls[i].after.branch), Get(GithubRef))

\* C18 as stated: in the default pipeline, when GITHUB_HEAD_REF is present and
\* non-empty, branch is its trimmed value and get_branch neither queries git
\* nor changes it; get_branch queries only when branch is unset or blank, and
\* then fails with 'No git branch found.' if the query errors.
C18_AsStated ==
    /\ BranchSteps
    /\ RefOverrides(GithubRef # None /\ Len(Get(GithubRef)) > 0)

\* C18, amended: the same with "present and not blank" for "present and
\* non-empty": a GITHUB_HEAD_REF that holds only whitespace leaves branch
\* empty, and get_branch then queries git as it does without the variable.
C18_BranchSource ==
    /\ BranchSteps
    /\ RefOverrides(~Blank(GithubRef))

\* with GITHUB_HEAD_REF ' fix/issue 7\n', get_branch has asked nothing and the
\* branch is 'fix/issue 7'
C18_Witness ==
    /\ After("get_branch")
    /\ GithubRef = Some(S_ref)
    /\ Last.queries = <<>>
    /\ err = None
    /\ ver.branch = Some(<<"f", "i", "x", "/", "i", "s", "s", "u", "e", " ", "7">>)

----------------------------------------------------------------------------
(* C19 *)

\* branch reads 'HEAD', whatever the case of its letters and the whitespace
\* around it
IsHead(o) == Lower(Strip(Get(o))) = <<"h", "e", "a", "d">>

\* the lines of the answer of git branch --contains, and those without 'HEAD'
AnswerLines(out) == SplitLines(Strip(out))
Candidates(out) ==
    {i \in 1..Len(AnswerLines(out)) : ~Contains(AnswerLines(out)[i], <<"H", "E", "A", "D">>)}

\* C19: get_detached_branch fails with a ValueError when branch or hash is
\* unset or blank; when branch is not 'HEAD' it asks git nothing and leaves the
\* record unchanged; when branch is 'HEAD' it asks for the branches that
\* contain hash, drops the lines containing 'HEAD', fails with 'Multiple
\* branches found for <hash>. Could not determine branch name' when more than
\* one line remains, and otherwise succeeds with branch set to the remaining
\* line, trimmed.
C19_DetachedBranch ==
    After("get_detached_branch") =>
        /\ Blank(Before.branch) =>
              RaisedMsg("No branch found.") /\ ver = Before /\ Last.queries = <<>>
        /\ (~Blank(Before.branch) /\ Blank(Before.hash)) =>
              RaisedMsg("No hash found.") /\ ver = Before /\ Last.queries = <<>>
        /\ (~Blank(Before.branch) /\ ~Blank(Before.hash) /\ ~IsHead(Before.branch)) =>
              err = None /\ ver = Before /\ Last.queries = <<>>
        /\ (~Blank(Before.branch) /\ ~Blank(Before.hash) /\ IsHead(Before.branch)) =>
              /\ Len(Last.queries) = 1
              /\ Last.queries[1].cmd = "branch --contains"
              /\ LET out == Last.queries[1].result.stdout
                 IN /\ Cardinality(Candidates(out)) > 1 =>
                          /\ RaisedMsg("Multiple branches found for {}. Could not determine branch name")
                          /\ Get(err).args = <<Get(Before.hash)>>
                          /\ ver = Before
                    /\ Cardinality(Candidates(out)) <= 1 =>
                          /\ err = None
                          /\ \E i \in Candidates(out) :
                                /\ IsTrimOf(Get(ver.branch), AnswerLines(out)[i])
                                /\ ver = [Before EXCEPT !.branch = ver.branch]

----------------------------------------------------------------------------
(* C20 *)

\* build has returned or raised
Built == view # None /\ (output # None \/ err # None)

\* the names of the comma-separated show list, and the names of the fields
ShowList == Split(Get(Get(view).show), ",")
FieldNames == {FieldName(f) : f \in Fields}
Unknown == {i \in 1..Len(ShowList) : ShowList[i] \notin FieldNames}

\* the lines of the output
OutputLines == Split(Get(output), "\n")

\* build has failed on the first unknown name of the list, with no output, or has
\* rendered exactly the names of the list, in their order: the output is the
\* rendering of that list, with one env line per name that starts with the
\* upper-cased prefix and name, with the list as the csv header, and with the
\* names as the keys of the json object
FailsOrRendersList ==
    /\ Unknown # {} =>
          /\ RaisedMsg("Field '{}' not found.")
          /\ \E i \in Unknown : /\ \A j \in Unknown : i <= j
                                 /\ Get(err).args = <<ShowList[i]>>
          /\ output = None
    /\ Unknown = {} =>
          /\ err = None
          /\ output = Rendered(Get(view), ver, [keys |-> ShowList, err |-> None]).out
          /\ Get(view).format = S_env =>
                /\ Len(OutputLines) = Len(ShowList)
                /\ \A i \in 1..Len(ShowList) :
                      BeginsWith(OutputLines[i],
                                 Upper(Get(view).env_prefix) \o Upper(ShowList[i]) \o <<"=">>)
          /\ (Get(view).format \notin {S_env, S_json} /\ Get(view).csv_header) =>
                Len(OutputLines) = 2 /\ OutputLines[1] = Get(Get(view).show)
          /\ (Get(view).format = S_json /\ ~Get(view).json_pretty) =>
                /\ BeginsWith(Get(output), <<"{", "\"">> \o ShowList[1] \o <<"\"", ":">>)
                /\ \A i \in 1..Len(ShowList) :
                      Contains(Get(output), <<"\"">> \o ShowList[i] \o <<"\"", ":", " ">>)

\* C20 as stated: build with a show other than 'all' fails with "Field '<x>'
\* not found." for a name x of the comma-separated show list that is not a
\* field, in every format and with no output; when all the names are fields,
\* exactly the listed fields are rendered, in the order listed.
C20_AsStated ==
    (Built /\ Get(view).show # None /\ Get(view).show # Some(S_all)) =>
        FailsOrRendersList

\* C20, amended: the same for a show that is not empty and not 'all'; an empty
\* show is no list of names: build then renders semver_full alone.
C20_UnknownFieldFails ==
    /\ (Built /\ Get(view).show # None /\ Get(view).show # Some(S_all)
          /\ Get(view).show # Some(<<>>)) =>
          FailsOrRendersList
    /\ (Built /\ Get(view).show = Some(<<>>)) =>
          /\ err = None
          /\ output = Rendered(Get(view), ver,
                               [keys |-> <<FieldName("semver_full")>>, err |-> None]).out

\* build of the json view of 'major,bogus' has failed on 'bogus' with no output
C20_Witness ==
    /\ Built
    /\ Get(view).show = Some(<<"m", "a", "j", "o", "r", ",", "b", "o", "g", "u", "s">>)
    /\ Get(view).format = S_json
    /\ RaisedMsg("Field '{}' not found.")
    /\ Get(err).args = <<S_bogus>>
    /\ output = None

----------------------------------------------------------------------------
(* C21 *)

\* the names build renders: semver_full for no show, every field for 'all',
\* the comma-separated list otherwise
Selected ==
    IF Get(view).show = None \/ Get(view).show = Some(<<>>) THEN <<FieldName("semver_full")>>
    ELSE IF Get(view).show = Some(S_all) THEN VerDictKeys
    ELSE ShowList

\* the field the i-th selected name names
SelectedField(i) == CHOOSE f \in Fields : FieldName(f) = Selected[i]

\* s with each double quote preceded by a backslash
QuotesEscaped(s) == Join(Split(s, "\""), <<"\\", "\"">>)

\* the text of the value of field f: nothing for an unset field, the decimal
\* numeral of a number, and a string in double quotes with its double quotes
\* escaped, or as it is when no quotes are wanted
ValueText(f) ==
    IF ver[f] = None THEN <<>>
    ELSE IF f \in {"major", "minor", "patch", "commits"} THEN IntToStr(Get(ver[f]))
    ELSE IF Get(view).no_quotes THEN Get(ver[f])
    ELSE <<"\"">> \o QuotesEscaped(Get(ver[f])) \o <<"\"">>

SelectedValues == [i \in 1..Len(Selected) |-> ValueText(SelectedField(i))]

\* C21: in csv format the output of build is, when csv_header is set, a first
\* line with the selected field names joined by commas, and then exactly one
\* line with one value per selected field, in the order of the names, joined
\* by commas, the value of an unset field being the empty string.
C21_CsvLines ==
    (Built /\ err = None /\ Get(view).format = S_csv) =>
        /\ Len(OutputLines) = (IF Get(view).csv_header THEN 2 ELSE 1)
        /\ Get(view).csv_header => OutputLines[1] = Join(Selected, <<",">>)
        /\ OutputLines[Len(OutputLines)] = Join(SelectedValues, <<",">>)
        /\ \A i \in 1..Len(Selected) :
              ver[SelectedField(i)] = None => SelectedValues[i] = <<>>

\* the csv view of 'major,minor' of Version(major=1, minor=2) with the header
\* is the two lines 'major,minor' and '1,2'
C21_Witness ==
    /\ Built
    /\ Get(view).format = S_csv
    /\ Get(view).csv_header
    /\ ver.major = Some(1) /\ ver.minor = Some(2)
    /\ Get(view).show = Some(<<"m", "a", "j", "o", "r", ",", "m", "i", "n", "o", "r">>)
    /\ output = Some(<<"m", "a", "j", "o", "r", ",", "m", "i", "n", "o", "r", "\n",
                       "1", ",", "2">>)

----------------------------------------------------------------------------
(* C22 *)

\* C22: in env format the output of build has exactly one line per selected
\* field: the upper-cased prefix, the upper-cased field name, '=', and the
\* value, which is a string in double quotes with each of its double quotes
\* escaped as \" (the string as it is when no_quotes is set), a number bare,
\* and nothing for an unset field.
C22_EnvLines ==
    (Built /\ err = None /\ Get(view).format = S_env) =>
        /\ Len(OutputLines) = Len(Selected)
        /\ \A i \in 1..Len(Selected) :
              OutputLines[i] = Upper(Get(view).env_prefix) \o Upper(Selected[i])
                               \o <<"=">> \o SelectedValues[i]

\* the env view of 'major,branch' with the prefix 'my_' of a record whose
\* branch is 'a"b' is MY_MAJOR=2 and MY_BRANCH="a\"b"
C22_Witness ==
    /\ Built
    /\ Get(view).format = S_env
    /\ Get(view).env_prefix = S_my_
    /\ ~Get(view).no_quotes
    /\ Get(view).show = Some(<<"m", "a", "j", "o", "r", ",", "b", "r", "a", "n", "c", "h">>)
    /\ ver.branch = Some(S_quoted)
    /\ output = Some(<<"M", "Y", "_", "M", "A", "J", "O", "R", "=">> \o IntToStr(MaxNum)
                     \o <<"\n", "M", "Y", "_", "B", "R", "A", "N", "C", "H", "=",
                          "\"", "a", "\\", "\"", "b", "\"">>)

----------------------------------------------------------------------------
(* C23 *)

\* the fields a returned record has set, and the characters of its branch
ReturnedFields ==
    {"hash", "last_tag", "commits", "branch", "major", "minor", "patch", "tag",
     "semver", "semver_full", "pep440", "nuget", "timestamp"}
BranchChars ==
    {"a", "b", "c", "d", "e", "f", "g", "h", "i", "j", "k", "l", "m", "n", "o", "p", "q",
     "r", "s", "t", "u", "v", "w", "x", "y", "z",
     "A", "B", "C", "D", "E", "F", "G", "H", "I", "J", "K", "L", "M", "N", "O", "P", "Q",
     "R", "S", "T", "U", "V", "W", "X", "Y", "Z",
     "0", "1", "2", "3", "4", "5", "6", "7", "8", "9", "-"}

\* C23: whenever get_version with the default step list returns a record,
\* whatever the repository queries have answered and whatever the environment
\* holds, hash, last_tag, commits, branch, major, minor, patch, tag, semver,
\* semver_full, pep440, nuget and timestamp are set, and branch is not empty
\* and has only characters of [a-zA-Z0-9-].
C23_ReturnedRecordComplete ==
    returned # None =>
        /\ \A f \in ReturnedFields : Get(returned)[f] # None
        /\ Len(Get(Get(returned).branch)) > 0
        /\ \A i \in 1..Len(Get(Get(returned).branch)) :
              Get(Get(returned).branch)[i] \in BranchChars

\* get_version has returned a record whose branch was sanitized, the query
\* for the commit of the last tag having failed
C23_Witness ==
    /\ returned # None
    /\ funcs = DefaultFuncs
    /\ Len(calls) = Len(DefaultFuncs)
    /\ \E i \in 1..Len(calls) :
          /\ calls[i].step = "sanitize_branch_name"
          /\ calls[i].before.branch # calls[i].after.branch
    /\ Get(returned).last_hash = None
    /\ Get(returned).commits = Some(0)

----------------------------------------------------------------------------
(* C24 *)

\* the calls of get_last_tag that have run the nearest-tag query, and those
\* whose query has failed
TagSearches == {i \in 1..Len(calls) : /\ calls[i].step = "get_last_tag"
                                      /\ Len(calls[i].queries) > 0}
TagSearchFailed(i) == calls[i].queries[1].result.returncode # 0

\* the commit of the repository that the tag t points to has the hash h
PointsTo(t, h) ==
    \E j \in 1..Len(Get(repo).history) :
        t \in Get(repo).history[j].tags /\ Get(repo).history[j].hash = h

\* C24: after get_last_tag returns, last_hash is set only if last_tag is set,
\* and it is then the commit that last_tag points to; when the nearest-tag
\* query fails, get_last_tag does not raise, last_tag and last_hash stay
\* unset, and the default pipeline aborts at get_commit_count with 'No
\* last_tag found.'.
C24_LastHashOnlyWithLastTag ==
    \A i \in TagSearches :
        /\ ~calls[i].raised
        /\ calls[i].after.last_hash # None =>
              /\ calls[i].after.last_tag # None
              /\ PointsTo(Get(calls[i].after.last_tag), Get(calls[i].after.last_hash))
        /\ TagSearchFailed(i) =>
              /\ calls[i].after.last_tag = None
              /\ calls[i].after.last_hash = None
              /\ Len(calls) > i =>
                    /\ Len(calls) = i + 1
                    /\ calls[i + 1].step = "get_commit_count"
                    /\ calls[i + 1].raised
                    /\ RaisedMsg("No last_tag found.")
                    /\ pc = Aborted
                    /\ returned = None

----------------------------------------------------------------------------
(* C25 *)

\* the tasks a loaded task depends on directly, and the names reachable from a
\* set of names through deps
Deps(t) ==
    IF t \in DOMAIN Get(runner).tasks
    THEN {Get(runner).tasks[t][i] : i \in 1..Len(Get(runner).tasks[t])}
    ELSE {}
RECURSIVE ReachableFrom(_)
ReachableFrom(S) ==
    LET more == S \cup UNION {Deps(t) : t \in S}
    IN IF more = S THEN S ELSE ReachableFrom(more)
Requested == {Get(runner).args[i] : i \in 1..Len(Get(runner).args)}

\* a task reachable from the requested ones depends on itself through deps
Cyclic == \E t \in ReachableFrom(Requested) : t \in ReachableFrom(Deps(t))

\* _resolve_deps has been called, has returned its list
Resolving == runner # None /\ ~Get(runner).printed_help /\ Get(runner).at # "validate"
ResolvedReturned ==
    /\ Resolving
    /\ \/ Get(runner).at \in {"runtime", "returned"}
       \/ Get(runner).at = "raised" /\ err = Some(TaskError)
ResolvedList == Get(runner).resolved

\* the names of the list that are loaded tasks, in the order of the list
IsLoaded(t) == t \in DOMAIN Get(runner).tasks
Runnable == SelectSeq(ResolvedList, IsLoaded)

\* C25: for an acyclic dependency graph _resolve_deps returns a list that
\* holds every requested task and every task reachable from one through deps,
\* each at most once, every dependency before each task that depends on it;
\* _process_tasks calls the task functions in exactly that order (all of them
\* when no function fails).
C25_DependencyOrder ==
    /\ (Resolving /\ ~Cyclic /\ Get(runner).at = "raised") => err = Some(TaskError)
    /\ (ResolvedReturned /\ ~Cyclic) =>
          /\ \A t \in ReachableFrom(Requested) :
                \E i \in 1..Len(ResolvedList) : ResolvedList[i] = t
          /\ \A i, j \in 1..Len(ResolvedList) :
                ResolvedList[i] = ResolvedList[j] => i = j
          /\ \A i \in 1..Len(ResolvedList) :
                \A d \in Deps(ResolvedList[i]) :
                    \E j \in 1..(i - 1) : ResolvedList[j] = d
          /\ Len(Get(runner).ran) <= Len(Runnable)
          /\ Get(runner).ran = SubSeq(Runnable, 1, Len(Get(runner).ran))
          /\ Get(runner).at = "returned" => Get(runner).ran = Runnable

\* 'a' was requested, with deps b and c, b with dep c: c, b and a were run in
\* this order
C25_Witness ==
    /\ runner # None
    /\ Get(runner).at = "returned"
    /\ Get(runner).args = <<"a">>
    /\ DOMAIN Get(runner).tasks = {"a", "b", "c"}
    /\ Get(runner).tasks["a"] = <<"b", "c">>
    /\ Get(runner).tasks["b"] = <<"c">>
    /\ Get(runner).tasks["c"] = <<>>
    /\ Get(runner).resolved = <<"c", "b", "a">>
    /\ Get(runner).ran = <<"c", "b", "a">>

----------------------------------------------------------------------------
(* C26 *)

CircularDependency == Some(ValueError("Circular dependency detected", <<>>))

\* _resolve_deps is running; it has raised
InResolveDeps == runner # None /\ Get(runner).at = "resolve"
ResolveRaised == Resolving /\ Get(runner).at = "raised" /\ err # Some(TaskError)

\* _resolve_deps raises the ValueError, and nothing else, exactly when a cycle
\* is reachable from the requested tasks, and no task function was called then
RaisesIffCyclic ==
    /\ ResolveRaised =>
          /\ err = CircularDependency
          /\ Cyclic
          /\ Get(runner).ran = <<>>
    /\ ResolvedReturned => ~Cyclic

\* C26: _resolve_deps raises ValueError('Circular dependency detected') if and
\* only if the dependency graph reachable from the requested tasks has a cycle
\* (a task that two tasks depend on is no cycle), it always terminates, and
\* when it raises no task function has been executed.
C26_CycleDetection ==
    /\ []RaisesIffCyclic
    /\ InResolveDeps ~> ~InResolveDeps

\* a and b depend on c and on each other: c was resolved for a and passed over
\* for b, the cycle of a and b has raised, and no task function was called
C26_Witness ==
    /\ ResolveRaised
    /\ err = CircularDependency
    /\ Get(runner).args = <<"a">>
    /\ DOMAIN Get(runner).tasks = {"a", "b", "c"}
    /\ Get(runner).tasks["a"] = <<"c", "b">>
    /\ Get(runner).tasks["b"] = <<"c", "a">>
    /\ Get(runner).tasks["c"] = <<>>
    /\ Get(runner).resolved = <<"c">>
    /\ Get(runner).visited = {"a", "b"}
    /\ Get(runner).ran = <<>>

====
